---- MODULE Spec2Model ----
(***************************************************************************)
(* RC-Dashboard: the CSV ingestion, filtering and sync pipeline of the two *)
(* App components of src/App.tsx (the multi-tab dashboard, lines 1-518,    *)
(* and the single-sheet dashboard, lines 521-1041) and of                  *)
(* src/utils/dataParser.ts.                                                *)
(*                                                                         *)
(* Representation.  A CSV text is a sequence of lines, a line the sequence *)
(* of its comma-separated fields.  A cell value is a record [t, v]: t is   *)
(* "num" (a JavaScript number, v its String() form), "str" (a string) or   *)
(* "undef" (a property the row does not have).  Instants are milliseconds  *)
(* counted from 2025-12-31T00:00Z (day 0).                                 *)
(***************************************************************************)
EXTENDS Integers, Sequences, FiniteSets, TLC

VARIABLES
    variant,          \* 1: multi-tab App (App.tsx:122), 2: single-sheet App (App.tsx:550)
    tz,               \* the browser's offset from UTC, ms (local = UTC + tz)
    dataMap,          \* App.tsx:124  tab id -> dataset (only the tabs loaded so far)
    loadingMap,       \* App.tsx:126
    errorMap,         \* App.tsx:127
    lastUpdatedMap,   \* App.tsx:128  the tabs that carry a timestamp
    refreshProgress,  \* App.tsx:129
    isSyncing,        \* App.tsx:130
    activeTab,        \* App.tsx:125
    selectedPlatform, \* App.tsx:132 / 557
    selectedBuild,    \* App.tsx:133 / 558
    startDate,        \* App.tsx:134 / 559
    endDate,          \* App.tsx:135 / 560
    data,             \* App.tsx:554  the single-sheet dataset, NullData before the first load
    loading,          \* App.tsx:555
    effectPending,    \* App.tsx:606  the build-reset effect is scheduled and not yet run
    inflight,         \* the fetchData calls awaiting their response
    syncs,            \* the syncAll calls awaiting Promise.all
    nextId,           \* start order of the next fetchData / syncAll call
    elapsed,          \* App.tsx:172  Date.now() - start at the last tick of the interval, ms
    dataGen,          \* tab -> start order of the fetchData call whose response is stored
    view,             \* the memoised values of the last render, NotRendered before it
    responseText,     \* dataParser.ts:4  the response text handed to parseCSV
    stats,            \* App.tsx:230-258 / 633-689  the memoised aggregates of the last render
    autoSyncAt        \* App.tsx:174  the times, since the timer effect mounted, of its syncAll(true) calls

vars == << variant, tz, dataMap, loadingMap, errorMap, lastUpdatedMap, refreshProgress,
           isSyncing, activeTab, selectedPlatform, selectedBuild, startDate, endDate,
           data, loading, effectPending, inflight, syncs, nextId, elapsed, dataGen,
           view, responseText, stats, autoSyncAt >>

-----------------------------------------------------------------------------
(* Configuration, App.tsx:12-35 *)

SUMMARY == "summary"
NEW_ISSUES == "new_issues"
VALIDATION == "validation"
TABS_CONFIG == << SUMMARY, NEW_ISSUES, VALIDATION >>
TabIds == { TABS_CONFIG[i] : i \in 1..Len(TABS_CONFIG) }

BUILD_COL_ALIASES == << "RC Build", "Build Version", "Build", "Version", "Build Number" >>
PLATFORM_COL_ALIASES == << "Platform", "OS", "Environment" >>
DATE_COL_ALIASES == << "Build Date", "Date", "Reported Date", "Created At" >>

All == "All"

-----------------------------------------------------------------------------
(* JavaScript values *)

Num(s) == [t |-> "num", v |-> s]
Str(s) == [t |-> "str", v |-> s]
Undef == [t |-> "undef", v |-> "undefined"]
UndefinedCol == "<undefined>"

\* Number(text) for the field texts of the model: the String() form of the
\* number, "NaN" when the text is not numeric.
ToNumber(s) ==
    CASE s = "5.1" -> "5.1"
      [] s = "5.10" -> "5.1"
      [] s = "5.3" -> "5.3"
      [] s = "11" -> "11"
      [] s = "0" -> "0"
      [] s = "7" -> "7"
      [] s = "1" -> "1"
      [] s = "3" -> "3"
      [] s = "20" -> "20"
      [] s = "80" -> "80"
      [] s = "100" -> "100"
      [] s = "-5" -> "-5"
      [] s = "-2" -> "-2"
      [] s = "+3" -> "3"
      [] s = "0x1F" -> "31"
      [] s = "1e3" -> "1000"
      [] s = "Infinity" -> "Infinity"
      [] OTHER -> "NaN"

\* String.prototype.trim
Trim(s) ==
    CASE s = " iOS" -> "iOS"
      [] s = "5.1 " -> "5.1"
      [] s = " " -> ""
      [] s = " 7 " -> "7"
      [] s = " Platform " -> "Platform"
      [] OTHER -> s

\* String(value)
String(c) == c.v

\* Boolean(value): "", 0 and undefined are falsy
Truthy(c) ==
    CASE c.t = "undef" -> FALSE
      [] c.t = "str" -> c.v # ""
      [] OTHER -> c.v # "0"

\* value === string
StrictEqStr(c, s) == c.t = "str" /\ c.v = s

\* row[key]
Get(r, key) == IF key \in DOMAIN r THEN r[key] ELSE Undef

\* find over the headers instead of the aliases: the first header, in
\* header order, that is one of the aliases
Find_HeaderOrder(aliases, headers) ==
    LET as == { aliases[i] : i \in 1..Len(aliases) }
        hit == { i \in 1..Len(headers) : headers[i] \in as }
    IN IF hit = {} THEN UndefinedCol
       ELSE headers[CHOOSE i \in hit : \A j \in hit : i <= j]

\* ALIASES.find(a => headers.includes(a))
Find(aliases, headers) ==
    LET hs == { headers[i] : i \in 1..Len(headers) }
        hit == { i \in 1..Len(aliases) : aliases[i] \in hs }
    IN IF hit = {} THEN UndefinedCol
       ELSE aliases[CHOOSE i \in hit : \A j \in hit : i <= j]

-----------------------------------------------------------------------------
(* Dates *)

MsPerHour == 3600000
MsPerDay == 24 * MsPerHour

\* Date.parse of a cell text: "utc" for the ISO date-only form, "local" for
\* every other parseable form (read in the browser's time zone), "invalid"
\* otherwise.  day and ms give the calendar day and time of day written.
DateLit(s) ==
    CASE s = "2026-01-01" -> [k |-> "utc", day |-> 1, ms |-> 0]
      [] s = "2026-01-02" -> [k |-> "utc", day |-> 2, ms |-> 0]
      [] s = "2026-01-03" -> [k |-> "utc", day |-> 3, ms |-> 0]
      [] s = "1 Jan 2026" -> [k |-> "local", day |-> 1, ms |-> 0]
      [] s = "2 Jan 2026" -> [k |-> "local", day |-> 2, ms |-> 0]
      [] s = "3 Jan 2026" -> [k |-> "local", day |-> 3, ms |-> 0]
      [] s = "29 Dec 2025" -> [k |-> "local", day |-> 0 - 2, ms |-> 0]
      [] s = "5 Jan 2026" -> [k |-> "local", day |-> 5, ms |-> 0]
      [] s = "2026-01-01T23:00" -> [k |-> "local", day |-> 1, ms |-> 23 * MsPerHour]
      [] OTHER -> [k |-> "invalid", day |-> 0, ms |-> 0]

NaN == -1

\* 1970-01-01T00:00Z, the instant new Date(number) counts from, and the
\* whole milliseconds of the numbers of the model
Epoch1970 == 0 - 20453 * MsPerDay
ToInteger(s) ==
    CASE s = "5.1" -> 5
      [] s = "5.3" -> 5
      [] s = "11" -> 11
      [] OTHER -> 0

\* new Date(value).getTime(), NaN for an Invalid Date
NewDate(c, zone) ==
    LET d == DateLit(c.v)
    IN CASE c.t = "undef" -> NaN
         [] c.t = "num" -> Epoch1970 + ToInteger(c.v)
         [] d.k = "utc" -> d.day * MsPerDay
         [] d.k = "local" -> d.day * MsPerDay + d.ms - zone
         [] OTHER -> NaN

\* a >= b and a <= b on Dates: false as soon as one side is invalid
DateGe(a, b) == a # NaN /\ b # NaN /\ a >= b
DateLe(a, b) == a # NaN /\ b # NaN /\ a <= b

\* end.setHours(23, 59, 59, 999): the last millisecond of end's local day
SetHoursEndOfDay(t, zone) ==
    IF t = NaN THEN NaN
    ELSE LET loc == t + zone
             day == loc \div MsPerDay
         IN day * MsPerDay + (MsPerDay - 1) - zone

-----------------------------------------------------------------------------
(* src/utils/dataParser.ts *)

IsBlankLine(line) == Len(line) = 1 /\ Trim(line[1]) = ""

\* parseCSV without the filter of blank lines
parseCSV_KeepsBlankLines(csvText) ==
    LET lines == csvText
    IN IF Len(lines) = 0 THEN [headers |-> << >>, rows |-> << >>]
       ELSE LET headers == [i \in 1..Len(lines[1]) |-> Trim(lines[1][i])]
                hs == { headers[i] : i \in 1..Len(headers) }
                col(h) == CHOOSE i \in 1..Len(headers) :
                              headers[i] = h /\ \A j \in 1..Len(headers) : headers[j] = h => j <= i
                cell(line, i) ==
                    LET val == IF i <= Len(line) THEN Trim(line[i]) ELSE ""
                    IN IF val # "" /\ ToNumber(val) # "NaN" THEN Num(ToNumber(val)) ELSE Str(val)
                row(line) == [h \in hs |-> cell(line, col(h))]
            IN [headers |-> headers,
                rows |-> [k \in 1..(Len(lines) - 1) |-> row(lines[k + 1])]]

\* parseCSV iterating over the values of the line instead of the headers:
\* a header past the end of a short line gets no cell
parseCSV_SkipsMissingCells(csvText) ==
    LET lines == SelectSeq(csvText, LAMBDA line : ~IsBlankLine(line))
    IN IF Len(lines) = 0 THEN [headers |-> << >>, rows |-> << >>]
       ELSE LET headers == [i \in 1..Len(lines[1]) |-> Trim(lines[1][i])]
                col(h) == CHOOSE i \in 1..Len(headers) :
                              headers[i] = h /\ \A j \in 1..Len(headers) : headers[j] = h => j <= i
                cell(line, i) ==
                    LET val == Trim(line[i])
                    IN IF val # "" /\ ToNumber(val) # "NaN" THEN Num(ToNumber(val)) ELSE Str(val)
                row(line) ==
                    [h \in { headers[i] : i \in { j \in 1..Len(headers) : j <= Len(line) } }
                        |-> IF col(h) <= Len(line) THEN cell(line, col(h)) ELSE Str("")]
            IN [headers |-> headers,
                rows |-> [k \in 1..(Len(lines) - 1) |-> row(lines[k + 1])]]

parseCSV(csvText) ==
    LET lines == SelectSeq(csvText, LAMBDA line : ~IsBlankLine(line))
    IN IF Len(lines) = 0 THEN [headers |-> << >>, rows |-> << >>]
       ELSE LET headers == [i \in 1..Len(lines[1]) |-> Trim(lines[1][i])]
                hs == { headers[i] : i \in 1..Len(headers) }
                \* headers.forEach assigns row[header] left to right: the last
                \* column of a repeated header wins
                col(h) == CHOOSE i \in 1..Len(headers) :
                              headers[i] = h /\ \A j \in 1..Len(headers) : headers[j] = h => j <= i
                cell(line, i) ==
                    LET val == IF i <= Len(line) THEN Trim(line[i]) ELSE ""
                    IN IF val # "" /\ ToNumber(val) # "NaN" THEN Num(ToNumber(val)) ELSE Str(val)
                row(line) == [h \in hs |-> cell(line, col(h))]
            IN [headers |-> headers,
                rows |-> [k \in 1..(Len(lines) - 1) |-> row(lines[k + 1])]]

-----------------------------------------------------------------------------
(* Sorting *)

\* Array.prototype.sort() without a comparator: UTF-16 code unit order
CodeUnitRank(s) ==
    CASE s = "11" -> 1
      [] s = "5.1" -> 2
      [] s = "5.2 (1)" -> 3
      [] s = "5.3" -> 4
      [] s = "Android" -> 5
      [] s = "TBD" -> 6
      [] s = "iOS" -> 7
      [] OTHER -> 0

\* a.localeCompare(b, undefined, { numeric: true }): digit runs compare as numbers
NumericCollationRank(s) ==
    CASE s = "5.1" -> 1
      [] s = "5.2 (1)" -> 2
      [] s = "5.3" -> 3
      [] s = "5.139.118 (68063)" -> 4
      [] s = "5.139.118 (68151)" -> 5
      [] s = "5.139.119(13589)" -> 6
      [] s = "11" -> 7
      [] s = "Android" -> 8
      [] s = "iOS" -> 9
      [] s = "TBD" -> 10
      [] OTHER -> 0

\* the elements of S by ascending rank (the ranks of S are distinct)
SortAscending(S, rank(_)) ==
    LET pos(x) == Cardinality({ y \in S : rank(y) < rank(x) }) + 1
    IN [i \in 1..Cardinality(S) |-> CHOOSE x \in S : pos(x) = i]

Reverse(s) == [i \in 1..Len(s) |-> s[Len(s) + 1 - i]]

\* Array.from(new Set(xs)): the distinct values in order of first occurrence
RECURSIVE Distinct(_)
Distinct(xs) ==
    IF xs = << >> THEN << >>
    ELSE LET front == Distinct(SubSeq(xs, 1, Len(xs) - 1))
             last == xs[Len(xs)]
         IN IF \E i \in 1..Len(front) : front[i] = last THEN front ELSE Append(front, last)

Range(s) == { s[i] : i \in 1..Len(s) }

-----------------------------------------------------------------------------
(* The multi-tab App, App.tsx:179-228 *)

platforms(dm) ==
    LET ofTab(d) ==
            LET col == Find(PLATFORM_COL_ALIASES, d.headers)
            IN IF col = UndefinedCol THEN {}
               ELSE { String(d.rows[i][col]) : i \in { j \in 1..Len(d.rows) : Truthy(d.rows[j][col]) } }
    IN SortAscending(UNION { ofTab(dm[t]) : t \in DOMAIN dm }, CodeUnitRank)

\* builds without the platform scope
builds_Unscoped(dm, platform) ==
    LET ofTab(d) ==
            LET bCol == Find(BUILD_COL_ALIASES, d.headers)
                text(r) == Trim(IF Truthy(r[bCol]) THEN String(r[bCol]) ELSE "")
            IN IF bCol = UndefinedCol THEN {}
               ELSE { text(d.rows[i]) : i \in 1..Len(d.rows) }
        all == UNION { ofTab(dm[t]) : t \in DOMAIN dm }
    IN Reverse(SortAscending({ b \in all : b # "" }, NumericCollationRank))

builds(dm, platform) ==
    LET ofTab(d) ==
            LET pCol == Find(PLATFORM_COL_ALIASES, d.headers)
                bCol == Find(BUILD_COL_ALIASES, d.headers)
                scoped(r) == platform = All
                             \/ (pCol # UndefinedCol /\ String(r[pCol]) = platform)
                text(r) == Trim(IF Truthy(r[bCol]) THEN String(r[bCol]) ELSE "")
            IN IF bCol = UndefinedCol THEN {}
               ELSE { text(d.rows[i]) : i \in { j \in 1..Len(d.rows) : scoped(d.rows[j]) } }
        all == UNION { ofTab(dm[t]) : t \in DOMAIN dm }
    IN Reverse(SortAscending({ b \in all : b # "" }, NumericCollationRank))

filteredRows(dm, tab, platform, build, start, end, zone) ==
    IF tab \notin DOMAIN dm THEN << >>
    ELSE LET d == dm[tab]
             pCol == Find(PLATFORM_COL_ALIASES, d.headers)
             bCol == Find(BUILD_COL_ALIASES, d.headers)
             dCol == Find(DATE_COL_ALIASES, d.headers)
             byPlatform == IF platform # All /\ pCol # UndefinedCol
                           THEN SelectSeq(d.rows, LAMBDA r : String(r[pCol]) = platform)
                           ELSE d.rows
             byBuild == IF build # All /\ bCol # UndefinedCol
                        THEN SelectSeq(byPlatform, LAMBDA r : String(r[bCol]) = build)
                        ELSE byPlatform
             inRange(r) ==
                 LET c == Get(r, IF dCol = UndefinedCol THEN "" ELSE dCol)
                     bd == NewDate(c, zone)
                 IN /\ Truthy(c)
                    /\ (start = "" \/ DateGe(bd, NewDate(Str(start), zone)))
                    /\ (end = "" \/ DateLe(bd, NewDate(Str(end), zone)))
         IN IF start # "" \/ end # "" THEN SelectSeq(byBuild, inRange) ELSE byBuild

-----------------------------------------------------------------------------
(* The single-sheet App, App.tsx:592-631 *)

NullData == [headers |-> << "<null>" >>, rows |-> << >>]

allAvailablePlatforms(d) ==
    IF d = NullData THEN << >>
    ELSE LET cells == Distinct([i \in 1..Len(d.rows) |-> Get(d.rows[i], "Platform")])
             kept == { cells[i] : i \in { j \in 1..Len(cells) : Truthy(cells[j]) } }
         \* sort() compares the String() forms
         IN SortAscending(kept, LAMBDA c : CodeUnitRank(String(c)))

allAvailableBuilds(d, platform) ==
    IF d = NullData THEN << >>
    ELSE LET rows == IF platform # All
                     THEN SelectSeq(d.rows, LAMBDA r : StrictEqStr(Get(r, "Platform"), platform))
                     ELSE d.rows
             cells == Distinct([i \in 1..Len(rows) |-> Get(rows[i], "RC Build")])
         IN Reverse(SelectSeq(cells, Truthy))

filteredRows2(d, platform, build, start, end, zone) ==
    IF d = NullData THEN << >>
    ELSE LET byBuild == IF build # All
                        THEN SelectSeq(d.rows, LAMBDA r : StrictEqStr(Get(r, "RC Build"), build))
                        ELSE d.rows
             byPlatform == IF platform # All
                           THEN SelectSeq(byBuild, LAMBDA r : StrictEqStr(Get(r, "Platform"), platform))
                           ELSE byBuild
             date(r) == NewDate(Get(r, "Build Date"), zone)
             byStart == IF start # ""
                        THEN SelectSeq(byPlatform, LAMBDA r : DateGe(date(r), NewDate(Str(start), zone)))
                        ELSE byPlatform
             endOfDay == SetHoursEndOfDay(NewDate(Str(end), zone), zone)
         IN IF end # "" THEN SelectSeq(byStart, LAMBDA r : DateLe(date(r), endOfDay)) ELSE byStart

-----------------------------------------------------------------------------
(* Inputs: the sheets the published spreadsheet may serve and the values   *)
(* the selects and date pickers may hold.                                  *)

MaxRows == 2

\* header lines: the sample sheet's names, aliases of them, a sheet with no
\* date column
HeaderPool ==
    { << "Platform", "RC Build", "Build Date" >>,
      << "OS", "Build", "Date" >>,
      << "Platform", "RC Build" >> }

\* data lines: platform, build, date
RowPool ==
    { << "Android", "5.1", "2 Jan 2026" >>,
      << " iOS", "5.2 (1)", "2026-01-02" >>,
      << "Android", "5.2 (1)", "2026-01-01T23:00" >>,
      << "11", "5.10", "TBD" >>,
      << "iOS", "5.3" >>,
      << "Android", "", "3 Jan 2026" >> }

SeqsUpTo(S, n) == UNION { [1..k -> S] : k \in 0..n }

CsvPool == { << h >> \o body : h \in HeaderPool, body \in SeqsUpTo(RowPool, MaxRows) }

PlatformPool == { All, "Android", "iOS", "11" }
BuildPool == { All, "5.1", "5.2 (1)" }
\* <input type="date"> yields "" or YYYY-MM-DD
DatePool == { "", "2026-01-02" }
TimeZones == { 0 - 5 * MsPerHour, 0, 11 * (MsPerHour \div 2) }

-----------------------------------------------------------------------------
(* State shared by the specifications *)

NotRendered == [rendered |-> FALSE, filteredRows |-> << >>]
NotAggregated == [rendered |-> FALSE]
EmptyMap == [t \in {} |-> FALSE]

\* the state after construction, App.tsx:123-135 and 551-560
Mounted ==
    /\ dataMap = EmptyMap
    /\ loadingMap = EmptyMap
    /\ errorMap = EmptyMap
    /\ lastUpdatedMap = {}
    /\ refreshProgress = 0
    /\ isSyncing = FALSE
    /\ activeTab = SUMMARY
    /\ selectedPlatform = All
    /\ selectedBuild = All
    /\ startDate = ""
    /\ endDate = ""
    /\ data = NullData
    /\ loading = FALSE
    /\ effectPending = FALSE
    /\ inflight = {}
    /\ syncs = {}
    /\ nextId = 1
    /\ elapsed = 0
    /\ dataGen = [t \in TabIds |-> 0]
    /\ view = NotRendered
    /\ responseText = << >>
    /\ autoSyncAt = << >>
    /\ stats = NotAggregated

-----------------------------------------------------------------------------
(* The network *)

MaxCalls == 6
TickDelay == 60000
REFRESH_INTERVAL == 120000

SheetA ==
    << << "Platform", "RC Build", "Build Date" >>,
       << "Android", "5.1", "2 Jan 2026" >>,
       << "iOS", "5.2 (1)", "2026-01-02" >> >>

SheetB ==
    << << "Platform", "RC Build", "Build Date" >>,
       << "Android", "5.2 (1)", "3 Jan 2026" >>,
       << "11", "5.3", "TBD" >> >>

\* the sign-in page served for a sheet that is not published
HtmlDoc == << << "<!DOCTYPE html>" >>, << "<html>Sign in</html>" >> >>

\* text.includes('<!DOCTYPE html>')
IncludesDoctype(text) ==
    \E i \in 1..Len(text) : \E j \in 1..Len(text[i]) : text[i][j] = "<!DOCTYPE html>"

\* what a request may come back with: a rejected fetch, or a response with
\* its status and body
Responses ==
    { [rejected |-> FALSE, status |-> 200, text |-> SheetA],
      [rejected |-> FALSE, status |-> 200, text |-> SheetB],
      [rejected |-> FALSE, status |-> 200, text |-> HtmlDoc],
      [rejected |-> FALSE, status |-> 500, text |-> << >>],
      [rejected |-> TRUE, status |-> 0, text |-> << >>] }

RespOk(resp) == resp.status >= 200 /\ resp.status <= 299

NullError == "<null>"
NoError == ""

\* the message of the error thrown inside the try block of fetchData,
\* App.tsx:149-152, NoError when none is thrown
ThrownMessage(resp) ==
    CASE resp.rejected -> "Failed to fetch"
      [] ~RespOk(resp) -> "HTTP 500"
      [] IncludesDoctype(resp.text) -> "Private sheet"
      [] OTHER -> NoError

\* { ...p, [key]: value }
Put(m, key, value) == [k \in DOMAIN m \cup {key} |-> IF k = key THEN value ELSE m[k]]

-----------------------------------------------------------------------------
(* The multi-tab App: fetchData, syncAll and the refresh timer, App.tsx:144-177 *)

\* syncAll up to its await: the synchronous head of the three fetchData calls
syncAll(isAuto) ==
    /\ isSyncing' = IF isAuto THEN TRUE ELSE isSyncing
    /\ loadingMap' = IF isAuto THEN loadingMap
                     ELSE [t \in DOMAIN loadingMap \cup TabIds |-> TRUE]
    /\ errorMap' = IF isAuto THEN errorMap
                   ELSE [t \in DOMAIN errorMap \cup TabIds |-> NullError]
    /\ inflight' = inflight \cup
                     { [id |-> nextId + i - 1, tab |-> TABS_CONFIG[i],
                        silent |-> isAuto, sync |-> nextId] : i \in 1..Len(TABS_CONFIG) }
    /\ syncs' = syncs \cup { [id |-> nextId, isAuto |-> isAuto] }
    /\ nextId' = nextId + Len(TABS_CONFIG)

\* useEffect(() => { syncAll(); }, []), App.tsx:167
Mount ==
    /\ variant = 1
    /\ nextId = 1
    /\ syncAll(FALSE)
    /\ UNCHANGED << autoSyncAt, responseText, stats, variant, tz, dataMap, lastUpdatedMap,
                    refreshProgress, activeTab, selectedPlatform, selectedBuild,
                    startDate, endDate, data, loading, effectPending, elapsed, dataGen,
                    view >>

\* the Sync button, App.tsx:304
SyncButton ==
    /\ variant = 1
    /\ nextId > 1
    /\ nextId + Len(TABS_CONFIG) - 1 <= MaxCalls
    /\ syncAll(FALSE)
    /\ UNCHANGED << autoSyncAt, responseText, stats, variant, tz, dataMap, lastUpdatedMap,
                    refreshProgress, activeTab, selectedPlatform, selectedBuild,
                    startDate, endDate, data, loading, effectPending, elapsed, dataGen,
                    view >>

\* the Retry button of a Card showing an error, App.tsx:345, 467, 501-502
Retry ==
    /\ variant = 1
    /\ nextId > 1
    /\ nextId <= MaxCalls
    /\ activeTab \in DOMAIN errorMap
    /\ errorMap[activeTab] # NullError
    /\ loadingMap' = Put(loadingMap, activeTab, TRUE)
    /\ errorMap' = Put(errorMap, activeTab, NullError)
    /\ inflight' = inflight \cup
                     { [id |-> nextId, tab |-> activeTab, silent |-> FALSE, sync |-> 0] }
    /\ nextId' = nextId + 1
    /\ UNCHANGED << autoSyncAt, responseText, stats, variant, tz, dataMap, lastUpdatedMap,
                    refreshProgress, isSyncing, activeTab, selectedPlatform,
                    selectedBuild, startDate, endDate, data, loading, effectPending,
                    syncs, elapsed, dataGen, view >>

\* the 1 s interval callback, App.tsx:171-175, while fewer than limit
\* fetchData calls have been started
TickWithin(limit) ==
    /\ variant = 1
    /\ nextId > 1
    /\ LET now == elapsed + TickDelay
           ratio == (now * 100) \div REFRESH_INTERVAL
           prog == IF ratio > 100 THEN 100 ELSE ratio
       IN /\ elapsed' = now
          /\ refreshProgress' = prog
          /\ IF prog >= 100
             THEN /\ nextId + Len(TABS_CONFIG) - 1 <= limit
                  /\ syncAll(TRUE)
                  /\ autoSyncAt' = Append(autoSyncAt, now)
             ELSE UNCHANGED << isSyncing, loadingMap, errorMap, inflight, syncs, nextId,
                               autoSyncAt >>
    /\ UNCHANGED << responseText, stats, variant, tz, dataMap, lastUpdatedMap, activeTab,
                    selectedPlatform, selectedBuild, startDate, endDate, data, loading,
                    effectPending, dataGen, view >>

Tick == TickWithin(MaxCalls)

\* a tab button, App.tsx:331; the timer effect depends on activeTab and restarts
SetActiveTab(tab) ==
    /\ variant = 1
    /\ nextId > 1
    /\ tab \in TabIds
    /\ tab # activeTab
    /\ activeTab' = tab
    /\ elapsed' = 0
    /\ autoSyncAt' = << >>
    /\ view' = NotRendered
    /\ stats' = NotAggregated
    /\ UNCHANGED << responseText, variant, tz, dataMap, loadingMap, errorMap,
                    lastUpdatedMap, refreshProgress, isSyncing, selectedPlatform,
                    selectedBuild, startDate, endDate, data, loading, effectPending,
                    inflight, syncs, nextId, dataGen >>

\* fetchData whose catch block writes the message for every tab
FetchComplete_SharedFailure(f, resp) ==
    /\ variant = 1
    /\ f \in inflight
    /\ LET message == ThrownMessage(resp)
           rest == inflight \ {f}
           joined == f.sync # 0 /\ ~\E g \in rest : g.sync = f.sync
           sync == CHOOSE x \in syncs : x.id = f.sync
       IN /\ inflight' = rest
          /\ IF message = NoError
             THEN /\ dataMap' = Put(dataMap, f.tab, parseCSV(resp.text))
                  /\ lastUpdatedMap' = lastUpdatedMap \cup {f.tab}
                  /\ dataGen' = [dataGen EXCEPT ![f.tab] = f.id]
                  /\ errorMap' = errorMap
                  /\ view' = NotRendered
                  /\ stats' = NotAggregated
             ELSE /\ UNCHANGED << dataMap, lastUpdatedMap, dataGen, view, stats >>
                  /\ errorMap' = IF f.silent THEN errorMap
                                 ELSE [t \in DOMAIN errorMap \cup TabIds |-> message]
          /\ loadingMap' = IF f.silent THEN loadingMap ELSE Put(loadingMap, f.tab, FALSE)
          /\ IF joined
             THEN /\ syncs' = syncs \ {sync}
                  /\ isSyncing' = IF sync.isAuto THEN FALSE ELSE isSyncing
                  /\ refreshProgress' = 0
             ELSE UNCHANGED << syncs, isSyncing, refreshProgress >>
    /\ UNCHANGED << autoSyncAt, responseText, variant, tz, activeTab, selectedPlatform, selectedBuild,
                    startDate, endDate, data, loading, effectPending, nextId, elapsed >>

\* fetchData writing { ...dataMap, [tabId]: ... } from the dataMap of the render
\* that created the callback (useCallback with no dependencies: the first)
FetchComplete_StaleClosure(f, resp) ==
    /\ variant = 1
    /\ f \in inflight
    /\ LET message == ThrownMessage(resp)
           rest == inflight \ {f}
           joined == f.sync # 0 /\ ~\E g \in rest : g.sync = f.sync
           sync == CHOOSE x \in syncs : x.id = f.sync
       IN /\ inflight' = rest
          /\ IF message = NoError
             THEN /\ dataMap' = Put(EmptyMap, f.tab, parseCSV(resp.text))
                  /\ lastUpdatedMap' = lastUpdatedMap \cup {f.tab}
                  /\ dataGen' = [dataGen EXCEPT ![f.tab] = f.id]
                  /\ errorMap' = errorMap
                  /\ view' = NotRendered
                  /\ stats' = NotAggregated
             ELSE /\ UNCHANGED << dataMap, lastUpdatedMap, dataGen, view, stats >>
                  /\ errorMap' = IF f.silent THEN errorMap ELSE Put(errorMap, f.tab, message)
          /\ loadingMap' = IF f.silent THEN loadingMap ELSE Put(loadingMap, f.tab, FALSE)
          /\ IF joined
             THEN /\ syncs' = syncs \ {sync}
                  /\ isSyncing' = IF sync.isAuto THEN FALSE ELSE isSyncing
                  /\ refreshProgress' = 0
             ELSE UNCHANGED << syncs, isSyncing, refreshProgress >>
    /\ UNCHANGED << autoSyncAt, responseText, variant, tz, activeTab, selectedPlatform, selectedBuild,
                    startDate, endDate, data, loading, effectPending, nextId, elapsed >>

\* fetchData without its catch and finally blocks: the error of a failed
\* fetch escapes, Promise.all rejects and the rest of syncAll never runs
FetchComplete_ErrorEscapes(f, resp) ==
    /\ variant = 1
    /\ f \in inflight
    /\ LET message == ThrownMessage(resp)
           rest == inflight \ {f}
           joined == f.sync # 0 /\ ~\E g \in rest : g.sync = f.sync
           sync == CHOOSE x \in syncs : x.id = f.sync
       IN /\ inflight' = rest
          /\ IF message = NoError
             THEN /\ dataMap' = Put(dataMap, f.tab, parseCSV(resp.text))
                  /\ lastUpdatedMap' = lastUpdatedMap \cup {f.tab}
                  /\ dataGen' = [dataGen EXCEPT ![f.tab] = f.id]
                  /\ errorMap' = errorMap
                  /\ view' = NotRendered
                  /\ stats' = NotAggregated
                  /\ loadingMap' = IF f.silent THEN loadingMap ELSE Put(loadingMap, f.tab, FALSE)
                  /\ IF joined
                     THEN /\ syncs' = syncs \ {sync}
                          /\ isSyncing' = IF sync.isAuto THEN FALSE ELSE isSyncing
                          /\ refreshProgress' = 0
                     ELSE UNCHANGED << syncs, isSyncing, refreshProgress >>
             ELSE UNCHANGED << dataMap, lastUpdatedMap, dataGen, view, stats, errorMap,
                               loadingMap, syncs, isSyncing, refreshProgress >>
    /\ UNCHANGED << autoSyncAt, responseText, variant, tz, activeTab, selectedPlatform,
                    selectedBuild, startDate, endDate, data, loading, effectPending, nextId,
                    elapsed >>

\* fetchData from the arrival of its response to its end, App.tsx:149-157
\* (a new dataMap invalidates the memoised filteredRows and aggregates),
\* and, when it is the last of its syncAll, the rest of syncAll, App.tsx:163-164
FetchComplete(f, resp) ==
    /\ variant = 1
    /\ f \in inflight
    /\ LET message == ThrownMessage(resp)
           rest == inflight \ {f}
           joined == f.sync # 0 /\ ~\E g \in rest : g.sync = f.sync
           sync == CHOOSE x \in syncs : x.id = f.sync
       IN /\ inflight' = rest
          /\ IF message = NoError
             THEN /\ dataMap' = Put(dataMap, f.tab, parseCSV(resp.text))
                  /\ lastUpdatedMap' = lastUpdatedMap \cup {f.tab}
                  /\ dataGen' = [dataGen EXCEPT ![f.tab] = f.id]
                  /\ errorMap' = errorMap
                  /\ view' = NotRendered
                  /\ stats' = NotAggregated
             ELSE /\ UNCHANGED << dataMap, lastUpdatedMap, dataGen, view, stats >>
                  /\ errorMap' = IF f.silent THEN errorMap ELSE Put(errorMap, f.tab, message)
          /\ loadingMap' = IF f.silent THEN loadingMap ELSE Put(loadingMap, f.tab, FALSE)
          /\ IF joined
             THEN /\ syncs' = syncs \ {sync}
                  /\ isSyncing' = IF sync.isAuto THEN FALSE ELSE isSyncing
                  /\ refreshProgress' = 0
             ELSE UNCHANGED << syncs, isSyncing, refreshProgress >>
    /\ UNCHANGED << autoSyncAt, responseText, variant, tz, activeTab, selectedPlatform, selectedBuild,
                    startDate, endDate, data, loading, effectPending, nextId, elapsed >>

InitSync ==
    /\ variant = 1
    /\ tz = 0
    /\ Mounted

Next ==
    \/ Mount
    \/ SyncButton
    \/ Retry
    \/ Tick
    \/ \E f \in inflight, resp \in Responses : FetchComplete(f, resp)

Spec == InitSync /\ [][Next]_vars

-----------------------------------------------------------------------------
(* The multi-tab App: the filter controls, App.tsx:312-317 *)

\* the Platform select without setSelectedBuild('All')
SelectPlatform_KeepsBuild(p) ==
    /\ variant = 1
    /\ nextId > 1
    /\ p \in Range(platforms(dataMap)) \cup {All}
    /\ p # selectedPlatform
    /\ selectedPlatform' = p
    /\ view' = NotRendered
    /\ stats' = NotAggregated
    /\ UNCHANGED << autoSyncAt, responseText, variant, tz, dataMap, loadingMap, errorMap,
                    lastUpdatedMap, refreshProgress, isSyncing, activeTab, selectedBuild,
                    startDate, endDate, data, loading, effectPending, inflight, syncs,
                    nextId, elapsed, dataGen >>

\* the Platform select: an option of platforms or "All Platforms"
SelectPlatform(p) ==
    /\ variant = 1
    /\ nextId > 1
    /\ p \in Range(platforms(dataMap)) \cup {All}
    /\ p # selectedPlatform
    /\ selectedPlatform' = p
    /\ selectedBuild' = All
    /\ view' = NotRendered
    /\ stats' = NotAggregated
    /\ UNCHANGED << autoSyncAt, responseText, variant, tz, dataMap, loadingMap, errorMap,
                    lastUpdatedMap, refreshProgress, isSyncing, activeTab, startDate,
                    endDate, data, loading, effectPending, inflight, syncs, nextId,
                    elapsed, dataGen >>

\* the Build select: an option of builds or "All Builds"
SelectBuild(b) ==
    /\ variant = 1
    /\ nextId > 1
    /\ b \in Range(builds(dataMap, selectedPlatform)) \cup {All}
    /\ b # selectedBuild
    /\ selectedBuild' = b
    /\ view' = NotRendered
    /\ stats' = NotAggregated
    /\ UNCHANGED << autoSyncAt, responseText, variant, tz, dataMap, loadingMap, errorMap,
                    lastUpdatedMap, refreshProgress, isSyncing, activeTab,
                    selectedPlatform, startDate, endDate, data, loading, effectPending,
                    inflight, syncs, nextId, elapsed, dataGen >>

\* the two DateSelectors
SetStartDate(d) ==
    /\ variant = 1
    /\ nextId > 1
    /\ d \in DatePool
    /\ d # startDate
    /\ startDate' = d
    /\ view' = NotRendered
    /\ stats' = NotAggregated
    /\ UNCHANGED << autoSyncAt, responseText, variant, tz, dataMap, loadingMap, errorMap,
                    lastUpdatedMap, refreshProgress, isSyncing, activeTab,
                    selectedPlatform, selectedBuild, endDate, data, loading,
                    effectPending, inflight, syncs, nextId, elapsed, dataGen >>

SetEndDate(d) ==
    /\ variant = 1
    /\ nextId > 1
    /\ d \in DatePool
    /\ d # endDate
    /\ endDate' = d
    /\ view' = NotRendered
    /\ stats' = NotAggregated
    /\ UNCHANGED << autoSyncAt, responseText, variant, tz, dataMap, loadingMap, errorMap,
                    lastUpdatedMap, refreshProgress, isSyncing, activeTab,
                    selectedPlatform, selectedBuild, startDate, data, loading,
                    effectPending, inflight, syncs, nextId, elapsed, dataGen >>

\* the Reset Filters button, shown while a filter is set
ResetFilters ==
    /\ variant = 1
    /\ nextId > 1
    /\ selectedPlatform # All \/ selectedBuild # All \/ startDate # "" \/ endDate # ""
    /\ selectedPlatform' = All
    /\ selectedBuild' = All
    /\ startDate' = ""
    /\ endDate' = ""
    /\ view' = NotRendered
    /\ stats' = NotAggregated
    /\ UNCHANGED << autoSyncAt, responseText, variant, tz, dataMap, loadingMap, errorMap,
                    lastUpdatedMap, refreshProgress, isSyncing, activeTab, data, loading,
                    effectPending, inflight, syncs, nextId, elapsed, dataGen >>

-----------------------------------------------------------------------------
(* The single-sheet App, App.tsx:569-610 and 766-791 *)

Sheet == "sheet"

\* the fallback sheet of fetchData, App.tsx:579-582: its RC Build, Build
\* Date and Platform columns
sampleCsv ==
    << << "RC Build", "Build Date", "Platform" >>,
       << "5.139.118 (68151)", "2 Jan 2026", "Android" >>,
       << "5.139.118 (68063)", "29 Dec 2025", "Android" >>,
       << "5.139.119(13589)", "5 Jan 2026", "iOS" >> >>

\* fetchData up to its await, App.tsx:570-572
fetchData2 ==
    /\ loading' = TRUE
    /\ inflight' = inflight \cup { [id |-> nextId, tab |-> Sheet, silent |-> FALSE, sync |-> 0] }
    /\ nextId' = nextId + 1

\* useEffect(() => { fetchData(); }, []), App.tsx:589
Mount2 ==
    /\ variant = 2
    /\ nextId = 1
    /\ fetchData2
    /\ UNCHANGED << autoSyncAt, responseText, stats, variant, tz, dataMap, loadingMap, errorMap,
                    lastUpdatedMap, refreshProgress, isSyncing, activeTab,
                    selectedPlatform, selectedBuild, startDate, endDate, data,
                    effectPending, syncs, elapsed, dataGen, view >>

\* the Refresh button, App.tsx:789
Refresh2 ==
    /\ variant = 2
    /\ nextId > 1
    /\ ~effectPending
    /\ nextId <= MaxCalls
    /\ fetchData2
    /\ UNCHANGED << autoSyncAt, responseText, stats, variant, tz, dataMap, loadingMap, errorMap,
                    lastUpdatedMap, refreshProgress, isSyncing, activeTab,
                    selectedPlatform, selectedBuild, startDate, endDate, data,
                    effectPending, syncs, elapsed, dataGen, view >>

\* fetchData from the arrival of its response to its end, App.tsx:573-586;
\* the new data value reschedules the build-reset effect and invalidates the
\* memoised filteredRows and aggregates
FetchComplete2(f, resp) ==
    /\ variant = 2
    /\ ~effectPending
    /\ f \in inflight
    /\ data' = IF ~resp.rejected /\ RespOk(resp) THEN parseCSV(resp.text)
               ELSE parseCSV(sampleCsv)
    /\ loading' = FALSE
    /\ effectPending' = TRUE
    /\ inflight' = inflight \ {f}
    /\ view' = NotRendered
    /\ stats' = NotAggregated
    /\ UNCHANGED << autoSyncAt, responseText, variant, tz, dataMap, loadingMap, errorMap,
                    lastUpdatedMap, refreshProgress, isSyncing, activeTab,
                    selectedPlatform, selectedBuild, startDate, endDate, syncs, nextId,
                    elapsed, dataGen >>

\* the option values of a select are the String() forms of its options
OptionValues(options) == { String(options[i]) : i \in 1..Len(options) }

\* the platform select, App.tsx:766-778
SelectPlatform2(p) ==
    /\ variant = 2
    /\ nextId > 1
    /\ ~effectPending
    /\ p \in OptionValues(allAvailablePlatforms(data)) \cup {All}
    /\ p # selectedPlatform
    /\ selectedPlatform' = p
    /\ effectPending' = TRUE
    /\ view' = NotRendered
    /\ stats' = NotAggregated
    /\ UNCHANGED << autoSyncAt, responseText, variant, tz, dataMap, loadingMap, errorMap,
                    lastUpdatedMap, refreshProgress, isSyncing, activeTab, selectedBuild,
                    startDate, endDate, data, loading, inflight, syncs, nextId, elapsed,
                    dataGen >>

\* the build select, App.tsx:780-787
SelectBuild2(b) ==
    /\ variant = 2
    /\ nextId > 1
    /\ ~effectPending
    /\ b \in OptionValues(allAvailableBuilds(data, selectedPlatform)) \cup {All}
    /\ b # selectedBuild
    /\ selectedBuild' = b
    /\ effectPending' = TRUE
    /\ view' = NotRendered
    /\ stats' = NotAggregated
    /\ UNCHANGED << autoSyncAt, responseText, variant, tz, dataMap, loadingMap, errorMap,
                    lastUpdatedMap, refreshProgress, isSyncing, activeTab,
                    selectedPlatform, startDate, endDate, data, loading, inflight, syncs,
                    nextId, elapsed, dataGen >>

\* allAvailableBuilds.includes(selectedBuild)
IncludesBuild(options, build) == \E i \in 1..Len(options) : StrictEqStr(options[i], build)

\* the build-reset effect, App.tsx:606-610; resetting the build changes a
\* dependency of the effect, which then runs once more
BuildResetEffect ==
    /\ variant = 2
    /\ effectPending
    /\ LET reset == selectedBuild # All
                      /\ ~IncludesBuild(allAvailableBuilds(data, selectedPlatform), selectedBuild)
       IN /\ selectedBuild' = IF reset THEN All ELSE selectedBuild
          /\ effectPending' = reset
    /\ UNCHANGED << autoSyncAt, responseText, stats, variant, tz, dataMap, loadingMap, errorMap,
                    lastUpdatedMap, refreshProgress, isSyncing, activeTab,
                    selectedPlatform, startDate, endDate, data, loading, inflight, syncs,
                    nextId, elapsed, dataGen, view >>

-----------------------------------------------------------------------------
(* SpecSel: either App with its filter controls and refreshes of the data *)

InitSel ==
    /\ variant \in {1, 2}
    /\ tz = 0
    /\ Mounted

\* the multi-tab App is served sheets or HTTP 500 here; Spec covers the
\* other failures
SelResponses == { resp \in Responses : ThrownMessage(resp) \in {NoError, "HTTP 500"} }

NextSel ==
    \/ Mount
    \/ SyncButton
    \/ \E f \in inflight, resp \in SelResponses : FetchComplete(f, resp)
    \/ \E p \in Range(platforms(dataMap)) \cup {All} : SelectPlatform(p)
    \/ \E b \in Range(builds(dataMap, selectedPlatform)) \cup {All} : SelectBuild(b)
    \/ ResetFilters
    \/ Mount2
    \/ Refresh2
    \/ \E f \in inflight, resp \in Responses : FetchComplete2(f, resp)
    \/ \E p \in OptionValues(allAvailablePlatforms(data)) \cup {All} : SelectPlatform2(p)
    \/ \E b \in OptionValues(allAvailableBuilds(data, selectedPlatform)) \cup {All} : SelectBuild2(b)
    \/ BuildResetEffect

SpecSel == InitSel /\ [][NextSel]_vars

-----------------------------------------------------------------------------
(* SpecFilter: the filter as a function of (dataset, selection, time zone) *)

\* the state once the sheet has loaded: in the multi-tab App the summary
\* tab holds it and the other two tabs answered HTTP 500
InitFilter ==
    /\ variant \in {1, 2}
    /\ tz \in TimeZones
    /\ \E csv \in CsvPool :
          /\ dataMap = IF variant = 1 THEN (SUMMARY :> parseCSV(csv)) ELSE EmptyMap
          /\ data = IF variant = 2 THEN parseCSV(csv) ELSE NullData
    /\ selectedPlatform \in PlatformPool
    /\ selectedBuild \in BuildPool
    \* the single-sheet App has no control that sets a date bound
    /\ startDate \in IF variant = 1 THEN DatePool ELSE {""}
    /\ endDate \in IF variant = 1 THEN DatePool ELSE {""}
    /\ loadingMap = IF variant = 1 THEN [t \in TabIds |-> FALSE] ELSE EmptyMap
    /\ errorMap = IF variant = 1
                  THEN [t \in TabIds |-> IF t = SUMMARY THEN NullError ELSE "HTTP 500"]
                  ELSE EmptyMap
    /\ lastUpdatedMap = IF variant = 1 THEN {SUMMARY} ELSE {}
    /\ refreshProgress = 0
    /\ isSyncing = FALSE
    /\ activeTab = SUMMARY
    /\ loading = FALSE
    /\ effectPending = FALSE
    /\ inflight = {}
    /\ syncs = {}
    /\ nextId = IF variant = 1 THEN Len(TABS_CONFIG) + 1 ELSE 2
    /\ elapsed = 0
    /\ dataGen = [t \in TabIds |-> IF variant = 1 /\ t = SUMMARY THEN 1 ELSE 0]
    /\ view = NotRendered
    /\ responseText = << >>
    /\ autoSyncAt = << >>
    /\ stats = NotAggregated

\* useMemo, App.tsx:215-228
RenderFilteredRows ==
    /\ variant = 1
    /\ ~view.rendered
    /\ view' = [rendered |-> TRUE,
                filteredRows |-> filteredRows(dataMap, activeTab, selectedPlatform,
                                              selectedBuild, startDate, endDate, tz)]
    /\ UNCHANGED << autoSyncAt, responseText, stats, variant, tz, dataMap, loadingMap, errorMap,
                    lastUpdatedMap, refreshProgress, isSyncing, activeTab,
                    selectedPlatform, selectedBuild, startDate, endDate, data, loading,
                    effectPending, inflight, syncs, nextId, elapsed, dataGen >>

\* useMemo, App.tsx:619-631
RenderFilteredRows2 ==
    /\ variant = 2
    /\ ~view.rendered
    /\ view' = [rendered |-> TRUE,
                filteredRows |-> filteredRows2(data, selectedPlatform, selectedBuild,
                                               startDate, endDate, tz)]
    /\ UNCHANGED << autoSyncAt, responseText, stats, variant, tz, dataMap, loadingMap, errorMap,
                    lastUpdatedMap, refreshProgress, isSyncing, activeTab,
                    selectedPlatform, selectedBuild, startDate, endDate, data, loading,
                    effectPending, inflight, syncs, nextId, elapsed, dataGen >>

NextFilter ==
    \/ RenderFilteredRows
    \/ RenderFilteredRows2
    \/ \E tab \in TabIds : SetActiveTab(tab)
    \/ \E d \in DatePool : SetStartDate(d)
    \/ \E d \in DatePool : SetEndDate(d)
    \/ ResetFilters

SpecFilter == InitFilter /\ [][NextFilter]_vars

\* the dataset on screen
ActiveData ==
    IF variant = 2 THEN data
    ELSE IF activeTab \in DOMAIN dataMap THEN dataMap[activeTab]
    ELSE [headers |-> << >>, rows |-> << >>]

\* the filter of the mounted App under another selection
FilteredWith(platform, build, start, end) ==
    IF variant = 1
    THEN filteredRows(dataMap, activeTab, platform, build, start, end, tz)
    ELSE filteredRows2(data, platform, build, start, end, tz)

\* the columns the alias groups resolve to in the dataset on screen
PlatformCol == Find(PLATFORM_COL_ALIASES, ActiveData.headers)
BuildCol == Find(BUILD_COL_ALIASES, ActiveData.headers)
DateCol == Find(DATE_COL_ALIASES, ActiveData.headers)

\* the calendar date written in a Date cell
CellDate(r) == DateLit(Get(r, DateCol).v)
IsDateCell(r) == Get(r, DateCol).t = "str" /\ CellDate(r).k # "invalid"

-----------------------------------------------------------------------------
(* Claims on the filter *)

\* C3: a row whose Date cell is a date without time of day equal to the
\* selected endDate, and which passes the start bound and the platform and
\* build predicates, is kept by the date-range filter.
C3_EndDateInclusive ==
    (view.rendered /\ endDate # "" /\ DateCol # UndefinedCol) =>
        \A i \in 1..Len(ActiveData.rows) :
            LET r == ActiveData.rows[i]
            IN ( /\ IsDateCell(r)
                 /\ CellDate(r).ms = 0
                 /\ CellDate(r).day = DateLit(endDate).day
                 /\ r \in Range(FilteredWith(selectedPlatform, selectedBuild, startDate, "")) )
               => r \in Range(view.filteredRows)

\* C4: a predicate whose alias does not resolve in the dataset is skipped:
\* with a date bound selected and no Date column no row is removed by the
\* date-range step, and likewise for platform and build.
C4_AbsentAliasSkipsStep ==
    view.rendered =>
        /\ DateCol = UndefinedCol =>
               view.filteredRows = FilteredWith(selectedPlatform, selectedBuild, "", "")
        /\ PlatformCol = UndefinedCol =>
               view.filteredRows = FilteredWith(All, selectedBuild, startDate, endDate)
        /\ BuildCol = UndefinedCol =>
               view.filteredRows = FilteredWith(selectedPlatform, All, startDate, endDate)

\* C7: with a start or end bound selected, a kept row has a non-empty,
\* parseable Date cell whose date is on or after the start bound and on or
\* before the end bound.
C7_DateRangePredicate ==
    (view.rendered /\ (startDate # "" \/ endDate # "")) =>
        \A i \in 1..Len(view.filteredRows) :
            LET r == view.filteredRows[i]
            IN /\ IsDateCell(r)
               /\ startDate = "" \/ CellDate(r).day >= DateLit(startDate).day
               /\ endDate = "" \/ CellDate(r).day <= DateLit(endDate).day

-----------------------------------------------------------------------------
(* Claims on fetching and on the selection *)

\* C1: a response of a fetch superseded by a newer fetch for the same tab is
\* discarded: the dataset stored for a tab is never replaced by the response
\* of a request started before the one whose response is stored.
C1_StaleResponseDiscarded ==
    [][\A t \in TabIds : dataGen'[t] >= dataGen[t]]_vars

\* a failed fetch as the specification lists them: network error, non-2xx
\* status, HTML document instead of CSV
IsFailure(resp) == resp.rejected \/ ~RespOk(resp) \/ IncludesDoctype(resp.text)

\* C2: a failed fetch never changes the stored dataset: it is neither
\* cleared nor replaced by other data.
C2_FailedFetchKeepsData ==
    [][\A f \in inflight : \A resp \in Responses :
          (IsFailure(resp) /\ (FetchComplete(f, resp) \/ FetchComplete2(f, resp)))
              => (dataMap' = dataMap /\ data' = data)]_vars

\* C5: with a build selected and no other filter set, the filter keeps
\* exactly the rows whose resolved Build cell, as a string, equals it,
\* number cells included.
C5_BuildPredicate ==
    (selectedBuild # All /\ selectedPlatform = All /\ startDate = "" /\ endDate = ""
        /\ BuildCol # UndefinedCol) =>
        FilteredWith(selectedPlatform, selectedBuild, startDate, endDate)
            = SelectSeq(ActiveData.rows, LAMBDA r : String(Get(r, BuildCol)) = selectedBuild)

\* C6: with a platform selected and no other filter set, the filter keeps
\* exactly the rows whose resolved Platform cell, as a string, equals it.
C6_PlatformPredicate ==
    (selectedPlatform # All /\ selectedBuild = All /\ startDate = "" /\ endDate = ""
        /\ PlatformCol # UndefinedCol) =>
        FilteredWith(selectedPlatform, selectedBuild, startDate, endDate)
            = SelectSeq(ActiveData.rows,
                        LAMBDA r : String(Get(r, PlatformCol)) = selectedPlatform)

\* the build options on screen, as the strings the select lists
BuildOptions ==
    IF variant = 1 THEN Range(builds(dataMap, selectedPlatform))
    ELSE OptionValues(allAvailableBuilds(data, selectedPlatform))

BuildSelectionValid == selectedBuild = All \/ selectedBuild \in BuildOptions

\* C8: after a change of the platform selection the selected build is "All"
\* or one of the build options of the new platform (in the single-sheet
\* App: once the build-reset effect that follows the change has run).
C8_PlatformChangeResetsBuild ==
    [][/\ (variant = 1 /\ selectedPlatform' # selectedPlatform) => BuildSelectionValid'
       /\ (variant = 2 /\ effectPending /\ ~effectPending') => BuildSelectionValid']_vars

\* a platform has just been chosen under which the selected build does not occur
C8_Witness ==
    /\ variant = 2
    /\ effectPending
    /\ selectedPlatform # All
    /\ selectedBuild # All
    /\ selectedBuild \notin BuildOptions
    /\ selectedBuild \in OptionValues(allAvailableBuilds(data, All))

\* C9: after any sequence of fetches and selections the selected build is
\* "All" or one of the current build options.
C9_BuildSelectionSurvivesRefresh ==
    (variant = 1 \/ ~effectPending) => BuildSelectionValid

\* the rows of every loaded dataset, with the columns its headers resolve to
ScopedBuildOccurs(b) ==
    IF variant = 1
    THEN \E t \in DOMAIN dataMap : \E i \in 1..Len(dataMap[t].rows) :
            LET r == dataMap[t].rows[i]
                pCol == Find(PLATFORM_COL_ALIASES, dataMap[t].headers)
                bCol == Find(BUILD_COL_ALIASES, dataMap[t].headers)
            IN String(Get(r, pCol)) = selectedPlatform /\ Trim(String(Get(r, bCol))) = b
    ELSE \E i \in 1..Len(data.rows) :
            /\ String(Get(data.rows[i], "Platform")) = selectedPlatform
            /\ String(Get(data.rows[i], "RC Build")) = b

\* C10: with a platform selected, every build option occurs in at least one
\* row of that platform.
C10_BuildOptionsScoped ==
    selectedPlatform # All => \A b \in BuildOptions : ScopedBuildOccurs(b)

\* a platform is selected, it has build options, and some build of the data
\* occurs only under another platform
C10_Witness ==
    /\ selectedPlatform = "Android"
    /\ BuildOptions # {}
    /\ \E b \in (IF variant = 1 THEN Range(builds(dataMap, All))
                  ELSE OptionValues(allAvailableBuilds(data, All))) :
          ~ScopedBuildOccurs(b)

-----------------------------------------------------------------------------
(* Claims on the build options *)

\* the build options on screen, in the order the select lists them
BuildOptionList ==
    IF variant = 1 THEN builds(dataMap, selectedPlatform)
    ELSE LET options == allAvailableBuilds(data, selectedPlatform)
         IN [i \in 1..Len(options) |-> String(options[i])]

\* the stringified, trimmed, non-empty build values of the rows of the
\* selected platform
ScopedBuildValues ==
    LET ofData(d, pCol, bCol) ==
            { Trim(String(Get(d.rows[i], bCol))) :
                i \in { j \in 1..Len(d.rows) :
                          /\ bCol \in DOMAIN d.rows[j]
                          /\ selectedPlatform = All
                             \/ String(Get(d.rows[j], pCol)) = selectedPlatform } }
        all == IF variant = 1
               THEN UNION { ofData(dataMap[t], Find(PLATFORM_COL_ALIASES, dataMap[t].headers),
                                   Find(BUILD_COL_ALIASES, dataMap[t].headers)) :
                            t \in { u \in DOMAIN dataMap :
                                      Find(BUILD_COL_ALIASES, dataMap[u].headers) # UndefinedCol } }
               ELSE ofData(data, "Platform", "RC Build")
    IN all \ {""}

\* C11: the build options are the distinct, stringified, trimmed, non-empty
\* build values of the platform-scoped rows in descending numeric-aware
\* order.
C11_BuildOptionsSortedDistinct ==
    BuildOptionList = Reverse(SortAscending(ScopedBuildValues, NumericCollationRank))

-----------------------------------------------------------------------------
(* Claims on the composition of the filter steps *)

\* the platform step of filteredRows, App.tsx:220 and 623
PlatformStep(rows) ==
    IF variant = 1
    THEN IF selectedPlatform # All /\ PlatformCol # UndefinedCol
         THEN SelectSeq(rows, LAMBDA r : String(r[PlatformCol]) = selectedPlatform)
         ELSE rows
    ELSE IF selectedPlatform # All
         THEN SelectSeq(rows, LAMBDA r : StrictEqStr(Get(r, "Platform"), selectedPlatform))
         ELSE rows

\* the build step with find in place of filter: only the first match is kept
BuildStep_FirstMatch(rows) ==
    LET hit == IF variant = 1
               THEN IF selectedBuild # All /\ BuildCol # UndefinedCol
                    THEN SelectSeq(rows, LAMBDA r : String(r[BuildCol]) = selectedBuild)
                    ELSE rows
               ELSE IF selectedBuild # All
                    THEN SelectSeq(rows, LAMBDA r : StrictEqStr(Get(r, "RC Build"), selectedBuild))
                    ELSE rows
    IN IF selectedBuild # All /\ Len(hit) > 1 THEN SubSeq(hit, 1, 1) ELSE hit

\* the build step of filteredRows, App.tsx:221 and 622
BuildStep(rows) ==
    IF variant = 1
    THEN IF selectedBuild # All /\ BuildCol # UndefinedCol
         THEN SelectSeq(rows, LAMBDA r : String(r[BuildCol]) = selectedBuild)
         ELSE rows
    ELSE IF selectedBuild # All
         THEN SelectSeq(rows, LAMBDA r : StrictEqStr(Get(r, "RC Build"), selectedBuild))
         ELSE rows

\* the date-range step of filteredRows, App.tsx:222-226 and 624-629
DateStep(rows) ==
    IF variant = 1
    THEN LET inRange(r) ==
                 LET c == Get(r, IF DateCol = UndefinedCol THEN "" ELSE DateCol)
                     bd == NewDate(c, tz)
                 IN /\ Truthy(c)
                    /\ (startDate = "" \/ DateGe(bd, NewDate(Str(startDate), tz)))
                    /\ (endDate = "" \/ DateLe(bd, NewDate(Str(endDate), tz)))
         IN IF startDate # "" \/ endDate # "" THEN SelectSeq(rows, inRange) ELSE rows
    ELSE LET date(r) == NewDate(Get(r, "Build Date"), tz)
             byStart == IF startDate # ""
                        THEN SelectSeq(rows, LAMBDA r : DateGe(date(r), NewDate(Str(startDate), tz)))
                        ELSE rows
             endOfDay == SetHoursEndOfDay(NewDate(Str(endDate), tz), tz)
         IN IF endDate # "" THEN SelectSeq(byStart, LAMBDA r : DateLe(date(r), endOfDay))
            ELSE byStart

\* C12: the platform, build and date-range steps applied in any of their
\* six orders yield the sequence of rows the filter yields.
C12_FilterStepsCommute ==
    view.rendered =>
        LET rows == ActiveData.rows
            out == view.filteredRows
        IN /\ DateStep(BuildStep(PlatformStep(rows))) = out
           /\ DateStep(PlatformStep(BuildStep(rows))) = out
           /\ BuildStep(DateStep(PlatformStep(rows))) = out
           /\ BuildStep(PlatformStep(DateStep(rows))) = out
           /\ PlatformStep(DateStep(BuildStep(rows))) = out
           /\ PlatformStep(BuildStep(DateStep(rows))) = out

\* all three steps are active, each removes a row that the others keep or
\* keeps one: the result is a proper, non-empty part of the dataset
C12_Witness ==
    /\ view.rendered
    /\ selectedPlatform # All /\ selectedBuild # All /\ endDate # ""
    /\ PlatformCol # UndefinedCol /\ BuildCol # UndefinedCol /\ DateCol # UndefinedCol
    /\ Len(view.filteredRows) > 0
    /\ Len(view.filteredRows) < Len(ActiveData.rows)

-----------------------------------------------------------------------------
(* SpecParse: either App receiving a response text and parsing it *)

MaxLines == 2

\* header lines: every combination of presence of the platform aliases,
\* listed against their priority order; build and date aliases against
\* theirs; a header that needs trimming
ParseHeaderPool ==
    { << "Name" >>,
      << "Platform", "RC Build" >>,
      << "OS" >>,
      << "Environment" >>,
      << "OS", "Platform" >>,
      << "Environment", "Platform" >>,
      << "Environment", "OS" >>,
      << "Environment", "OS", "Platform" >>,
      << "Version", "Build", "Created At", "Date" >>,
      << " Platform ", "Build Number" >> }

\* the lines after the header: blank and whitespace-only lines, lines with
\* fewer and with more fields than headers, the numeric forms of Number()
ParseLinePool ==
    { << "" >>,
      << " " >>,
      << "Android", "5.1" >>,
      << "iOS" >>,
      << "", "5.10" >>,
      << "0x1F", "1e3", "Infinity" >>,
      << "-2", "+3", " 7 " >>,
      << "11", "TBD", "5.3", "0", "iOS" >> }

ParsePool ==
    { << >>, << << "" >> >>, << << " " >>, << "" >> >> }
    \cup { prefix \o << h >> \o rest :
             prefix \in { << >>, << << "" >> >> },
             h \in ParseHeaderPool,
             rest \in SeqsUpTo(ParseLinePool, MaxLines) }

\* the response of the request: status 200 with the text as its body
Received == [rejected |-> FALSE, status |-> 200, text |-> responseText]

InitParse ==
    /\ variant \in {1, 2}
    /\ tz = 0
    /\ dataMap = EmptyMap
    /\ loadingMap = EmptyMap
    /\ errorMap = EmptyMap
    /\ lastUpdatedMap = {}
    /\ refreshProgress = 0
    /\ isSyncing = FALSE
    /\ activeTab = SUMMARY
    /\ selectedPlatform = All
    /\ selectedBuild = All
    /\ startDate = ""
    /\ endDate = ""
    /\ data = NullData
    /\ loading = FALSE
    /\ effectPending = FALSE
    /\ inflight = {}
    /\ syncs = {}
    /\ nextId = 1
    /\ elapsed = 0
    /\ dataGen = [t \in TabIds |-> 0]
    /\ view = NotRendered
    /\ stats = NotAggregated
    /\ responseText \in ParsePool
    /\ autoSyncAt = << >>

NextParse ==
    \/ Mount
    \/ \E f \in { g \in inflight : g.tab = SUMMARY } : FetchComplete(f, Received)
    \/ RenderFilteredRows
    \/ Mount2
    \/ \E f \in inflight : FetchComplete2(f, Received)
    \/ BuildResetEffect
    \/ RenderFilteredRows2

SpecParse == InitParse /\ [][NextParse]_vars

-----------------------------------------------------------------------------
(* Claims on parsing and on alias resolution *)

\* the response text has been parsed and stored
Parsed ==
    \/ variant = 1 /\ SUMMARY \in DOMAIN dataMap
    \/ variant = 2 /\ data # NullData

\* a line is blank when it holds nothing but white space
NonBlankLines(text) ==
    SelectSeq(text, LAMBDA line : ~(Len(line) = 1 /\ line[1] \in {"", " "}))

\* C13: parse returns the trimmed comma-split of the first non-blank line
\* as headers and max(0, nonblank lines - 1) rows; for a text with no
\* non-blank line it returns empty headers and empty rows.
C13_ParseShape ==
    Parsed =>
        LET nb == NonBlankLines(responseText)
        IN IF Len(nb) = 0
           THEN ActiveData = [headers |-> << >>, rows |-> << >>]
           ELSE /\ ActiveData.headers = [i \in 1..Len(nb[1]) |-> Trim(nb[1][i])]
                /\ Len(ActiveData.rows) = Len(nb) - 1

\* a text with a blank line before its header, another among its data
\* lines, and a data line has been parsed
C13_Witness ==
    /\ Parsed
    /\ Len(responseText) >= 4
    /\ responseText[1] = << "" >>
    /\ \E i \in 3..Len(responseText) : responseText[i] \in { << "" >>, << " " >> }
    /\ Len(ActiveData.rows) >= 1

\* integer or decimal with optional sign
IsDecimal(s) == s \in { "5.1", "5.10", "5.3", "11", "0", "7", "-2", "+3" }

\* the cell stored for field i of data line k (the header of column i is
\* not repeated in the header lines of the model)
StoredCell(k, i) == ActiveData.rows[k][ActiveData.headers[i]]

\* C14: a cell is stored as a number exactly when its trimmed text is an
\* integer or decimal with optional sign, and then as that number; every
\* other cell is stored as the trimmed string.
C14_CellCoercion ==
    Parsed =>
        LET nb == NonBlankLines(responseText)
        IN \A k \in 1..Len(ActiveData.rows) : \A i \in 1..Len(ActiveData.headers) :
              LET text == IF i <= Len(nb[k + 1]) THEN Trim(nb[k + 1][i]) ELSE ""
              IN StoredCell(k, i) = IF IsDecimal(text) THEN Num(ToNumber(text)) ELSE Str(text)

\* C15: every row has a value for every header, the empty string where its
\* line has fewer values than headers, and row k is made of the k-th
\* non-blank line after the header line.
C15_RowsComplete ==
    Parsed =>
        LET nb == NonBlankLines(responseText)
        IN \A k \in 1..Len(ActiveData.rows) :
              /\ DOMAIN ActiveData.rows[k] = Range(ActiveData.headers)
              /\ \A i \in 1..Len(ActiveData.headers) :
                    IF i <= Len(nb[k + 1])
                    THEN String(StoredCell(k, i)) \in { Trim(nb[k + 1][i]), ToNumber(Trim(nb[k + 1][i])) }
                    ELSE StoredCell(k, i) = Str("")

\* two rows in source order around a blank line, one of them from a line
\* with fewer values than headers
C15_Witness ==
    /\ Parsed
    /\ Len(ActiveData.rows) = 2
    /\ Len(responseText) > 3
    /\ \E k \in 1..2 : Len(NonBlankLines(responseText)[k + 1]) < Len(ActiveData.headers)
    /\ ActiveData.rows[1] # ActiveData.rows[2]

\* the first entry of the group, in declared order, that is a header
RECURSIVE FirstPresent(_, _)
FirstPresent(aliases, headers) ==
    IF aliases = << >> THEN UndefinedCol
    ELSE IF Head(aliases) \in Range(headers) THEN Head(aliases)
    ELSE FirstPresent(Tail(aliases), headers)

\* C16: alias resolution returns the first entry of the alias group, in
\* declared priority order, that is a header of the dataset, and none when
\* no entry is one.
C16_AliasPriority ==
    (variant = 1 /\ Parsed /\ view.rendered) =>
        /\ PlatformCol = FirstPresent(PLATFORM_COL_ALIASES, ActiveData.headers)
        /\ BuildCol = FirstPresent(BUILD_COL_ALIASES, ActiveData.headers)
        /\ DateCol = FirstPresent(DATE_COL_ALIASES, ActiveData.headers)

\* the headers hold two entries of a group, the one of lower priority first
C16_Witness ==
    /\ variant = 1 /\ Parsed /\ view.rendered
    /\ ActiveData.headers = << "OS", "Platform" >>
    /\ PlatformCol = "Platform"

-----------------------------------------------------------------------------
(* Aggregation, App.tsx:230-258, 338-341, 633-689 and 799-802.  A number is *)
(* a record [k, n]: k is "fin" (n its value in hundredths), "nan" or "inf". *)

Fin(n) == [k |-> "fin", n |-> n]
NaNum == [k |-> "nan", n |-> 0]
Infinite == [k |-> "inf", n |-> 0]

\* the numbers of the model, by their String() form, in hundredths
Hundredths(s) ==
    CASE s = "0" -> 0
      [] s = "1" -> 100
      [] s = "3" -> 300
      [] s = "5.1" -> 510
      [] s = "5.3" -> 530
      [] s = "7" -> 700
      [] s = "11" -> 1100
      [] s = "20" -> 2000
      [] s = "31" -> 3100
      [] s = "80" -> 8000
      [] s = "100" -> 10000
      [] s = "1000" -> 100000
      [] s = "-2" -> 0 - 200
      [] s = "-5" -> 0 - 500
      [] OTHER -> 0

\* Number(value) of a cell: the empty string is 0, other text and
\* undefined are NaN
Number(c) ==
    CASE c.t = "num" -> IF c.v = "Infinity" THEN Infinite ELSE Fin(Hundredths(c.v))
      [] c.t = "str" /\ c.v = "" -> Fin(0)
      [] OTHER -> NaNum

\* a || b on cells
CellOr(a, b) == IF Truthy(a) THEN a ELSE b

\* x || 0 on numbers
OrZero(x) == IF x.k = "nan" \/ (x.k = "fin" /\ x.n = 0) THEN Fin(0) ELSE x

\* a + b
Plus(a, b) ==
    CASE a.k = "nan" \/ b.k = "nan" -> NaNum
      [] a.k = "inf" \/ b.k = "inf" -> Infinite
      [] OTHER -> Fin(a.n + b.n)

\* reduce((s, x) => s + x, 0)
RECURSIVE SumSeq(_)
SumSeq(xs) == IF xs = << >> THEN Fin(0) ELSE Plus(SumSeq(SubSeq(xs, 1, Len(xs) - 1)), xs[Len(xs)])

\* the quotient num / den rounded to the nearest integer
Round(num, den) ==
    IF den > 0 THEN (2 * num + den) \div (2 * den)
    ELSE (2 * (0 - num) + (0 - den)) \div (2 * (0 - den))

\* parseFloat(val.replace('%', '')) of the percent texts of the model, in
\* hundredths
ParseFloatPercent(s) ==
    CASE s = "80.00%" -> Fin(8000)
      [] s = "0.00%" -> Fin(0)
      [] s = "12.5%" -> Fin(1250)
      [] OTHER -> NaNum

\* the sum over the rows of Number(r[key]) || 0
SumOf(rows, key) == SumSeq([i \in 1..Len(rows) |-> OrZero(Number(Get(rows[i], key)))])

NullStats == [null |-> TRUE]

\* summaryStats of the multi-tab App, App.tsx:230-238
summaryStats(rows, tab) ==
    IF tab # SUMMARY \/ Len(rows) = 0 THEN NullStats
    ELSE [null |-> FALSE,
          total |-> SumOf(rows, "Total Test Cases"),
          executed |-> SumOf(rows, "Executed"),
          passed |-> SumOf(rows, "Passed"),
          critical |-> SumOf(rows, "Critical Issues")]

\* pieData of the multi-tab App, App.tsx:240-247
pieData(rows, tab) ==
    IF tab # SUMMARY \/ Len(rows) = 0 THEN << >>
    ELSE << [name |-> "Pass", value |-> SumOf(rows, "Passed")],
            [name |-> "Fail", value |-> SumOf(rows, "Failed")],
            [name |-> "N/A", value |-> SumOf(rows, "Not considered")] >>

TrendLimit == 10

\* one point of the trend series, App.tsx:250-257
TrendPoint(r) ==
    [name |-> CellOr(Get(r, "RC Build"), CellOr(Get(r, "Build"), Get(r, "Build Version"))),
     Passed |-> OrZero(Number(Get(r, "Passed"))),
     Failed |-> OrZero(Number(Get(r, "Failed"))),
     Critical |-> OrZero(Number(Get(r, "Critical Issues"))),
     Major |-> OrZero(Number(Get(r, "Major Issues"))),
     Minor |-> OrZero(Number(Get(r, "Minor Issues"))),
     Automation |-> OrZero(Number(CellOr(Get(r, "Automation executed"), Get(r, "Automation")))),
     Manual |-> OrZero(Number(CellOr(Get(r, "Manual executed"), Get(r, "Manual"))))]

\* trendData without the reverse(): the rows stay newest-first
trendData_Unreversed(rows) ==
    LET first == SubSeq(rows, 1, IF Len(rows) < TrendLimit THEN Len(rows) ELSE TrendLimit)
    IN [i \in 1..Len(first) |-> TrendPoint(first[i])]

\* trendData of the multi-tab App, App.tsx:249-258
trendData(rows) ==
    LET first == SubSeq(rows, 1, IF Len(rows) < TrendLimit THEN Len(rows) ELSE TrendLimit)
    IN Reverse([i \in 1..Len(first) |-> TrendPoint(first[i])])

\* (a / b) * 100 with digits decimals, in hundredths of a percent
Percentage(a, b, digits) ==
    CASE a.k = "fin" /\ b.k = "fin" ->
             IF digits = 1 THEN Fin(10 * Round(a.n * 1000, b.n))
             ELSE Fin(Round(a.n * 10000, b.n))
      [] a.k = "fin" /\ b.k = "inf" -> Fin(0)
      [] a.k = "inf" /\ b.k = "fin" -> Infinite
      [] OTHER -> NaNum

\* the four MetricCards of the multi-tab App, App.tsx:338-341
Cards(st) ==
    LET shown(x) == IF st.null THEN Fin(0) ELSE OrZero(x)
    IN [total |-> shown(IF st.null THEN NaNum ELSE st.total),
        executed |-> shown(IF st.null THEN NaNum ELSE st.executed),
        passRate |-> IF st.null THEN Fin(0)
                     ELSE IF OrZero(st.executed) = Fin(0) THEN Fin(0)
                     ELSE Percentage(st.passed, st.executed, 1),
        critical |-> shown(IF st.null THEN NaNum ELSE st.critical)]

\* parsePercent, App.tsx:636-639
parsePercent(c) ==
    IF c.t = "str" THEN OrZero(ParseFloatPercent(c.v)) ELSE OrZero(Number(c))

\* the sum over the rows of Number(r[key] || r[other] || 0)
SumOfEither(rows, key, other) ==
    SumSeq([i \in 1..Len(rows) |->
               Number(CellOr(Get(rows[i], key), CellOr(Get(rows[i], other), Num("0"))))])

\* (sum / count).toFixed(1) of the parsePercent values of a column
Average(rows, key) ==
    LET sum == SumSeq([i \in 1..Len(rows) |-> parsePercent(Get(rows[i], key))])
    IN IF sum.k = "fin" THEN Fin(10 * Round(sum.n, 10 * Len(rows))) ELSE sum

\* summaryStats of the single-sheet App, App.tsx:633-679
summaryStats2(rows) ==
    IF Len(rows) = 0 THEN NullStats
    ELSE LET passed == SumOf(rows, "Passed")
             executed == SumOf(rows, "Executed")
         IN [null |-> FALSE,
             total |-> SumOf(rows, "Total Test Cases"),
             executed |-> executed,
             passed |-> passed,
             auto |-> SumOf(rows, "Automation executed"),
             manual |-> SumOf(rows, "Manual executed"),
             critical |-> SumOfEither(rows, "Critical Issues", "Critical_Issues"),
             major |-> SumOfEither(rows, "Major Issues", "Major_Issues"),
             minor |-> SumOfEither(rows, "Minor Issues", "Minor_Issues"),
             passRate |-> IF executed.k = "inf" \/ (executed.k = "fin" /\ executed.n > 0)
                          THEN Percentage(passed, executed, 2)
                          ELSE Fin(0),
             passPct |-> Average(rows, "Pass %"),
             failPct |-> Average(rows, "Failure %"),
             notConsideredPct |-> Average(rows, "Not considered %"),
             pendingPct |-> Average(rows, "Pending %"),
             completionPct |-> Average(rows, "Completion %")]

\* pieData of the single-sheet App, App.tsx:681-689
pieData2(st) ==
    IF st.null THEN << >>
    ELSE << [name |-> "Passed", value |-> st.passPct],
            [name |-> "Failed", value |-> st.failPct],
            [name |-> "Not Considered", value |-> st.notConsideredPct],
            [name |-> "Pending", value |-> st.pendingPct] >>

\* b.split('(')[0].trim() for the build texts of the model
SplitParenTrim(s) ==
    CASE s = "5.2 (1)" -> "5.2"
      [] s = "5.139.118 (68063)" -> "5.139.118"
      [] s = "5.139.118 (68151)" -> "5.139.118"
      [] s = "5.139.119(13589)" -> "5.139.119"
      [] OTHER -> Trim(s)

\* b.split is not a function: the 'RC Build' cell is a number or undefined
TypeError == [throws |-> TRUE, points |-> << >>]

\* Array.from(new Set(filteredRows.map(r => r['RC Build'])))
RcBuilds(rows) == Distinct([i \in 1..Len(rows) |-> Get(rows[i], "RC Build")])

\* filteredRows.filter(r => r['RC Build'] === b)
BuildRows(rows, b) == SelectSeq(rows, LAMBDA r : Get(r, "RC Build") = b)

\* executionSummaryData of the single-sheet App, App.tsx:691-703
executionSummaryData(rows) ==
    LET bs == RcBuilds(rows)
    IN IF Len(rows) = 0 THEN [throws |-> FALSE, points |-> << >>]
       ELSE IF \E i \in 1..Len(bs) : bs[i].t # "str" THEN TypeError
       ELSE [throws |-> FALSE,
             points |-> [i \in 1..Len(bs) |->
                 [build |-> SplitParenTrim(bs[i].v),
                  passed |-> SumOf(BuildRows(rows, bs[i]), "Passed"),
                  failed |-> SumOf(BuildRows(rows, bs[i]), "Failed"),
                  notConsidered |-> SumOfEither(BuildRows(rows, bs[i]), "Not considered",
                                                "Not_considered")]]]

\* bugSummaryData of the single-sheet App, App.tsx:705-717
bugSummaryData(rows) ==
    LET bs == RcBuilds(rows)
    IN IF Len(rows) = 0 THEN [throws |-> FALSE, points |-> << >>]
       ELSE IF \E i \in 1..Len(bs) : bs[i].t # "str" THEN TypeError
       ELSE [throws |-> FALSE,
             points |-> [i \in 1..Len(bs) |->
                 [build |-> SplitParenTrim(bs[i].v),
                  critical |-> SumOfEither(BuildRows(rows, bs[i]), "Critical Issues",
                                           "Critical_Issues"),
                  major |-> SumOfEither(BuildRows(rows, bs[i]), "Major Issues", "Major_Issues"),
                  minor |-> SumOfEither(BuildRows(rows, bs[i]), "Minor Issues", "Minor_Issues")]]]

\* the four PremiumMetricCards of the single-sheet App, App.tsx:799-802
Cards2(st) ==
    [total |-> IF st.null THEN Fin(0) ELSE OrZero(st.total),
     executed |-> IF st.null THEN Fin(0) ELSE OrZero(st.executed),
     passRate |-> IF st.null THEN Fin(0) ELSE st.passRate,
     critical |-> IF st.null THEN Fin(0) ELSE OrZero(st.critical)]

\* the aggregate memos and the cards, evaluated after filteredRows
RenderSummary ==
    /\ variant = 1
    /\ view.rendered
    /\ ~stats.rendered
    /\ stats' = [rendered |-> TRUE,
                 summaryStats |-> summaryStats(view.filteredRows, activeTab),
                 pieData |-> pieData(view.filteredRows, activeTab),
                 trendData |-> trendData(view.filteredRows),
                 cards |-> Cards(summaryStats(view.filteredRows, activeTab))]
    /\ UNCHANGED << autoSyncAt, responseText, view, variant, tz, dataMap, loadingMap, errorMap,
                    lastUpdatedMap, refreshProgress, isSyncing, activeTab,
                    selectedPlatform, selectedBuild, startDate, endDate, data, loading,
                    effectPending, inflight, syncs, nextId, elapsed, dataGen >>

RenderSummary2 ==
    /\ variant = 2
    /\ view.rendered
    /\ ~stats.rendered
    /\ stats' = [rendered |-> TRUE,
                 summaryStats |-> summaryStats2(view.filteredRows),
                 pieData |-> pieData2(summaryStats2(view.filteredRows)),
                 executionSummaryData |-> executionSummaryData(view.filteredRows),
                 bugSummaryData |-> bugSummaryData(view.filteredRows),
                 cards |-> Cards2(summaryStats2(view.filteredRows))]
    /\ UNCHANGED << autoSyncAt, responseText, view, variant, tz, dataMap, loadingMap, errorMap,
                    lastUpdatedMap, refreshProgress, isSyncing, activeTab,
                    selectedPlatform, selectedBuild, startDate, endDate, data, loading,
                    effectPending, inflight, syncs, nextId, elapsed, dataGen >>

-----------------------------------------------------------------------------
(* SpecAgg: the aggregates as a function of (dataset, selection) *)

\* header lines of a report sheet: with and without the Executed and
\* Critical Issues columns
AggHeaderPool ==
    { << "Platform", "RC Build", "Total Test Cases", "Passed", "Failed", "Not considered",
         "Pass %", "Executed", "Critical Issues" >>,
      << "Platform", "RC Build", "Total Test Cases", "Passed", "Failed", "Not considered",
         "Pass %" >> }

\* data lines: counts, a set whose Executed is 0, text in count columns, a
\* negative count
AggRowPool ==
    { << "Android", "5.1", "100", "80", "20", "0", "80.00%", "100", "1" >>,
      << "iOS", "5.2 (1)", "3", "0", "0", "3", "0.00%", "0", "N/A" >>,
      << "Android", "5.3", "20", "not a number", "0", "0", "", "20", "0" >>,
      << "iOS", "5.3", "1", "1", "0", "0", "12.5%", "-5", "1" >> }

AggPool == { << h >> \o rows : h \in AggHeaderPool, rows \in SeqsUpTo(AggRowPool, MaxRows) }

\* the state once a report sheet has loaded, with a selection made from the
\* options on screen
InitAgg ==
    /\ variant \in {1, 2}
    /\ tz = 0
    /\ \E csv \in AggPool :
          /\ dataMap = IF variant = 1 THEN (SUMMARY :> parseCSV(csv)) ELSE EmptyMap
          /\ data = IF variant = 2 THEN parseCSV(csv) ELSE NullData
    /\ selectedPlatform \in {All} \cup (IF variant = 1 THEN Range(platforms(dataMap))
                                        ELSE OptionValues(allAvailablePlatforms(data)))
    /\ selectedBuild \in {All} \cup
          (IF variant = 1 THEN Range(builds(dataMap, selectedPlatform))
           ELSE { b \in OptionValues(allAvailableBuilds(data, selectedPlatform)) :
                    IncludesBuild(allAvailableBuilds(data, selectedPlatform), b) })
    /\ startDate = ""
    /\ endDate = ""
    /\ loadingMap = IF variant = 1 THEN [t \in TabIds |-> FALSE] ELSE EmptyMap
    /\ errorMap = IF variant = 1
                  THEN [t \in TabIds |-> IF t = SUMMARY THEN NullError ELSE "HTTP 500"]
                  ELSE EmptyMap
    /\ lastUpdatedMap = IF variant = 1 THEN {SUMMARY} ELSE {}
    /\ refreshProgress = 0
    /\ isSyncing = FALSE
    /\ activeTab = SUMMARY
    /\ loading = FALSE
    /\ effectPending = FALSE
    /\ inflight = {}
    /\ syncs = {}
    /\ nextId = IF variant = 1 THEN Len(TABS_CONFIG) + 1 ELSE 2
    /\ elapsed = 0
    /\ dataGen = [t \in TabIds |-> IF variant = 1 /\ t = SUMMARY THEN 1 ELSE 0]
    /\ view = NotRendered
    /\ stats = NotAggregated
    /\ responseText = << >>
    /\ autoSyncAt = << >>

NextAgg ==
    \/ RenderFilteredRows
    \/ RenderFilteredRows2
    \/ RenderSummary
    \/ RenderSummary2
    \/ ResetFilters

SpecAgg == InitAgg /\ [][NextAgg]_vars

-----------------------------------------------------------------------------
(* Claims on the aggregates *)

\* the aggregates of the dashboard on screen have been evaluated (in the
\* multi-tab App the summary tab shows them)
Aggregated == stats.rendered /\ (variant = 1 => activeTab = SUMMARY)

\* the sum over the filtered rows of a column, a cell that is not a number
\* counting 0
ExpectedSum(key) ==
    SumSeq([i \in 1..Len(view.filteredRows) |->
               LET c == Get(view.filteredRows[i], key)
               IN IF c.t = "num" THEN Number(c) ELSE Fin(0)])

\* C17: in every aggregated field a cell that is not a number contributes 0
\* and the sum is a finite number.
C17_NonNumericCellsCountZero ==
    (Aggregated /\ ~stats.summaryStats.null) =>
        /\ stats.summaryStats.total = ExpectedSum("Total Test Cases")
        /\ stats.summaryStats.executed = ExpectedSum("Executed")
        /\ stats.summaryStats.passed = ExpectedSum("Passed")
        /\ stats.summaryStats.critical = ExpectedSum("Critical Issues")
        /\ variant = 1 =>
              /\ stats.pieData[1].value = ExpectedSum("Passed")
              /\ stats.pieData[2].value = ExpectedSum("Failed")
              /\ stats.pieData[3].value = ExpectedSum("Not considered")
              /\ \A i \in 1..Len(stats.trendData) :
                    \A x \in { stats.trendData[i].Passed, stats.trendData[i].Failed,
                               stats.trendData[i].Critical, stats.trendData[i].Major,
                               stats.trendData[i].Minor, stats.trendData[i].Automation,
                               stats.trendData[i].Manual } : x.k = "fin"
        /\ variant = 2 =>
              /\ stats.summaryStats.major = ExpectedSum("Major Issues")
              /\ stats.summaryStats.minor = ExpectedSum("Minor Issues")
              /\ stats.summaryStats.auto = ExpectedSum("Automation executed")
              /\ stats.summaryStats.manual = ExpectedSum("Manual executed")

\* C18: the summary totals shown are the sums over the filtered rows of the
\* Total Test Cases, Executed, Passed and Critical Issues cells; the single
\* Android row (100, 100, 80, 1) gives 100, 100, 80, 1 and a pass rate of 80%.
C18_SummaryTotals ==
    Aggregated =>
        /\ stats.cards.total = ExpectedSum("Total Test Cases")
        /\ stats.cards.executed = ExpectedSum("Executed")
        /\ stats.cards.critical = ExpectedSum("Critical Issues")
        /\ ~stats.summaryStats.null => stats.summaryStats.passed = ExpectedSum("Passed")
        /\ ( /\ Len(view.filteredRows) = 1
             /\ ExpectedSum("Total Test Cases") = Fin(10000)
             /\ ExpectedSum("Executed") = Fin(10000)
             /\ ExpectedSum("Passed") = Fin(8000) )
           => stats.cards.passRate = Fin(8000)

\* the decimals of the pass rate shown: toFixed(1) and toFixed(2)
RateDigits == IF variant = 1 THEN 1 ELSE 2

\* C19: the pass rate is passed / executed x 100 when the executed total is
\* not 0, and 0 when it is 0.
C19_PassRate ==
    Aggregated =>
        stats.cards.passRate =
            IF ExpectedSum("Executed") = Fin(0) THEN Fin(0)
            ELSE Percentage(ExpectedSum("Passed"), ExpectedSum("Executed"), RateDigits)

\* C20: for an empty filtered row set the pass rate and the totals are 0,
\* the trend series is empty and every distribution bucket is present with
\* value 0.
C20_EmptySetAggregate ==
    (Aggregated /\ Len(view.filteredRows) = 0) =>
        /\ stats.cards = [total |-> Fin(0), executed |-> Fin(0), passRate |-> Fin(0),
                          critical |-> Fin(0)]
        /\ variant = 1 => stats.trendData = << >>
        /\ Len(stats.pieData) = IF variant = 1 THEN 3 ELSE 4
        /\ \A i \in 1..Len(stats.pieData) : stats.pieData[i].value = Fin(0)

\* C21: the distribution is exactly three named buckets whose values are the
\* sums over the filtered rows of the Passed, Failed and Not considered
\* cells (the share of each bucket is derived from these three values when
\* the chart is drawn).
C21_DistributionBuckets ==
    Aggregated =>
        /\ Len(stats.pieData) = 3
        /\ stats.pieData[1].value = ExpectedSum("Passed")
        /\ stats.pieData[2].value = ExpectedSum("Failed")
        /\ stats.pieData[3].value = ExpectedSum("Not considered")

-----------------------------------------------------------------------------
(* SpecTrend: the chart series over report sheets longer than the trend *)
(* window *)

MaxTrendRows == 12

\* header lines: the build under 'RC Build', under both 'Build' and
\* 'Build Version', under 'Version'
TrendHeaderPool ==
    { << "Platform", "RC Build", "Passed", "Failed", "Critical Issues" >>,
      << "Platform", "Build", "Build Version", "Passed", "Failed" >>,
      << "Platform", "Version", "Passed", "Failed" >> }

\* the builds of a report, newest first: a build has one line per platform
TrendBuildLines ==
    << [platform |-> "Android", build |-> "5.139.118 (68151)", version |-> "5.3",
        passed |-> "80", failed |-> "20", critical |-> "1"],
       [platform |-> "iOS", build |-> "5.139.118 (68151)", version |-> "5.3",
        passed |-> "100", failed |-> "0", critical |-> "0"],
       [platform |-> "Android", build |-> "5.139.118 (68063)", version |-> "5.1",
        passed |-> "3", failed |-> "1", critical |-> "0"],
       [platform |-> "iOS", build |-> "5.2 (1)", version |-> "5.1",
        passed |-> "20", failed |-> "0", critical |-> "3"] >>

\* the field of a line under a header
TrendField(line, header) ==
    CASE header = "Platform" -> line.platform
      [] header \in {"RC Build", "Build", "Version"} -> line.build
      [] header = "Build Version" -> line.version
      [] header = "Passed" -> line.passed
      [] header = "Failed" -> line.failed
      [] OTHER -> line.critical

\* a report of n lines under header line h, starting at line k of the cycle
TrendSheet(h, n, k) ==
    << h >> \o [j \in 1..n |->
                  [i \in 1..Len(h) |->
                      TrendField(TrendBuildLines[((j + k) % Len(TrendBuildLines)) + 1], h[i])]]

TrendPool ==
    { TrendSheet(h, n, k) : h \in TrendHeaderPool, n \in 0..MaxTrendRows,
                            k \in 0..(Len(TrendBuildLines) - 1) }

\* the state once a report sheet has loaded, with a platform selected from
\* the options on screen
InitTrend ==
    /\ variant \in {1, 2}
    /\ tz = 0
    /\ \E csv \in TrendPool :
          /\ dataMap = IF variant = 1 THEN (SUMMARY :> parseCSV(csv)) ELSE EmptyMap
          /\ data = IF variant = 2 THEN parseCSV(csv) ELSE NullData
    /\ selectedPlatform \in {All} \cup (IF variant = 1 THEN Range(platforms(dataMap))
                                        ELSE OptionValues(allAvailablePlatforms(data)))
    /\ selectedBuild = All
    /\ startDate = ""
    /\ endDate = ""
    /\ loadingMap = IF variant = 1 THEN [t \in TabIds |-> FALSE] ELSE EmptyMap
    /\ errorMap = IF variant = 1
                  THEN [t \in TabIds |-> IF t = SUMMARY THEN NullError ELSE "HTTP 500"]
                  ELSE EmptyMap
    /\ lastUpdatedMap = IF variant = 1 THEN {SUMMARY} ELSE {}
    /\ refreshProgress = 0
    /\ isSyncing = FALSE
    /\ activeTab = SUMMARY
    /\ loading = FALSE
    /\ effectPending = FALSE
    /\ inflight = {}
    /\ syncs = {}
    /\ nextId = IF variant = 1 THEN Len(TABS_CONFIG) + 1 ELSE 2
    /\ elapsed = 0
    /\ dataGen = [t \in TabIds |-> IF variant = 1 /\ t = SUMMARY THEN 1 ELSE 0]
    /\ view = NotRendered
    /\ stats = NotAggregated
    /\ responseText = << >>
    /\ autoSyncAt = << >>

NextTrend ==
    \/ RenderFilteredRows
    \/ RenderFilteredRows2
    \/ RenderSummary
    \/ RenderSummary2
    \/ ResetFilters

SpecTrend == InitTrend /\ [][NextTrend]_vars

-----------------------------------------------------------------------------
(* Claims on the trend series *)

\* the number of points of the trend window
TrendCount == IF Len(view.filteredRows) < TrendLimit THEN Len(view.filteredRows) ELSE TrendLimit

\* C22: the trend series has min(10, number of filtered rows) points, and
\* point i (counted from 0) is the point of filtered row k-1-i (counted from
\* 0), k being that number: the first 10 rows in reversed order.
C22_TrendFirstTenReversed ==
    (variant = 1 /\ stats.rendered) =>
        /\ Len(stats.trendData) = TrendCount
        /\ \A i \in 0..(TrendCount - 1) :
              stats.trendData[i + 1] = TrendPoint(view.filteredRows[(TrendCount - 1 - i) + 1])

\* more filtered rows than the window holds, the first and the last row of
\* the window differing
C22_Witness ==
    /\ variant = 1
    /\ stats.rendered
    /\ Len(view.filteredRows) > TrendLimit
    /\ TrendPoint(view.filteredRows[1]) # TrendPoint(view.filteredRows[TrendLimit])
    /\ TrendPoint(view.filteredRows[1]) # TrendPoint(view.filteredRows[Len(view.filteredRows)])

\* the build identifiers of the points of the series on screen: the trend
\* series of the multi-tab App, the execution and bug series of the
\* single-sheet App
SeriesBuilds ==
    IF variant = 1 THEN << [i \in 1..Len(stats.trendData) |-> stats.trendData[i].name] >>
    ELSE << [i \in 1..Len(stats.executionSummaryData.points) |->
                stats.executionSummaryData.points[i].build],
            [i \in 1..Len(stats.bugSummaryData.points) |->
                stats.bugSummaryData.points[i].build] >>

\* C23: a series has at most 10 points and no two of its points carry the
\* same build identifier, also when several filtered rows share a build.
C23_OnePointPerBuild ==
    stats.rendered =>
        \A n \in 1..Len(SeriesBuilds) :
            /\ Len(SeriesBuilds[n]) <= TrendLimit
            /\ \A i, j \in 1..Len(SeriesBuilds[n]) :
                  i # j => SeriesBuilds[n][i] # SeriesBuilds[n][j]

\* C28: the label of every trend point is the row's cell under the header
\* that BUILD_COL_ALIASES resolves to in the dataset, the header the build
\* filter uses.
C28_TrendLabelUsesBuildAlias ==
    (variant = 1 /\ stats.rendered) =>
        \A i \in 1..Len(stats.trendData) :
            stats.trendData[i].name = Get(view.filteredRows[Len(stats.trendData) + 1 - i], BuildCol)

-----------------------------------------------------------------------------
(* Claims on the sync of the multi-tab App *)

\* m[t] where t may have no entry
MapAt(m, t) == IF t \in DOMAIN m THEN << m[t] >> ELSE << >>

\* C24: a fetch that completes without storing a dataset (it failed) changes
\* neither the dataset nor the error nor the loading state of another tab,
\* and a fetch that completes with a successful response stores the parse
\* of a sheet for its tab, whatever became of the other fetches of its sync.
C24_FailureIsolatedPerTab ==
    [][\A f \in inflight \ inflight' :
          IF dataGen'[f.tab] = f.id
          THEN \E resp \in Responses :
                  ~IsFailure(resp) /\ MapAt(dataMap', f.tab) = << parseCSV(resp.text) >>
          ELSE \A t \in TabIds \ {f.tab} :
                  /\ MapAt(dataMap', t) = MapAt(dataMap, t)
                  /\ MapAt(errorMap', t) = MapAt(errorMap, t)
                  /\ MapAt(loadingMap', t) = MapAt(loadingMap, t)]_vars

\* of the fetches of the first sync one has failed, its tab showing the
\* message and no data, and another has stored its dataset
C24_Witness ==
    \E t1, t2 \in TabIds :
        /\ t1 # t2
        /\ t1 \in DOMAIN errorMap
        /\ errorMap[t1] # NullError
        /\ t1 \notin DOMAIN dataMap
        /\ t2 \in DOMAIN dataMap
        /\ dataGen[t2] \in 1..Len(TABS_CONFIG)

\* C25: every failed fetch, started by the user or by the timer, leaves its
\* tab with an error message for the presentation layer.
C25_FailureSurfaced ==
    [][\A f \in inflight : \A resp \in Responses :
          (IsFailure(resp) /\ (FetchComplete(f, resp) \/ FetchComplete2(f, resp)))
              => /\ variant = 1
                 /\ f.tab \in DOMAIN errorMap'
                 /\ errorMap'[f.tab] = ThrownMessage(resp)
                 /\ errorMap'[f.tab] \notin {NullError, NoError}]_vars

\* C27: a successful fetch stores the parse of the received text as the
\* dataset of its tab, and a step changes the dataset of no tab but the one
\* whose fetch completes successfully in it.
C27_WholesaleReplace ==
    [][\A t \in TabIds :
          IF dataGen'[t] = dataGen[t]
          THEN MapAt(dataMap', t) = MapAt(dataMap, t)
          ELSE \E f \in inflight : \E resp \in Responses :
                  /\ f.tab = t
                  /\ f.id = dataGen'[t]
                  /\ ~IsFailure(resp)
                  /\ FetchComplete(f, resp)
                  /\ MapAt(dataMap', t) = << parseCSV(resp.text) >>]_vars

\* the datasets of two tabs come from fetches of different syncs and differ,
\* the third tab is loaded too
C27_Witness ==
    /\ DOMAIN dataMap = TabIds
    /\ \E t1, t2 \in TabIds :
          /\ dataGen[t1] \in 1..Len(TABS_CONFIG)
          /\ dataGen[t2] > Len(TABS_CONFIG)
          /\ dataMap[t1] # dataMap[t2]

\* C29: while a fetch of a tab that is not silent is in flight, the loading
\* flag of the tab is true.
C29_LoadingWhileInFlight ==
    \A f \in inflight :
        ~f.silent => (f.tab \in DOMAIN loadingMap /\ loadingMap[f.tab] = TRUE)

-----------------------------------------------------------------------------
(* SpecTimer: the mount sync and the refresh timer left running, no other *)
(* input *)

MaxTimerCalls == 9

NextTimer ==
    \/ Mount
    \/ TickWithin(MaxTimerCalls)
    \/ \E f \in inflight, resp \in SelResponses : FetchComplete(f, resp)

SpecTimer == InitSync /\ [][NextTimer]_vars

\* C26: any two consecutive automatic syncs of a mounted timer effect are
\* started at least REFRESH_INTERVAL apart.
C26_FixedIntervalPolling ==
    \A i \in 1..(Len(autoSyncAt) - 1) :
        autoSyncAt[i + 1] - autoSyncAt[i] >= REFRESH_INTERVAL

-----------------------------------------------------------------------------
(* SpecLive: the sync of the multi-tab App with every network request *)
(* eventually resolving or rejecting *)

\* a sheet, an HTTP error and a rejected fetch
LiveResponses == { resp \in Responses : resp.text \notin {SheetB, HtmlDoc} }

NextLive ==
    \/ Mount
    \/ SyncButton
    \/ Retry
    \/ Tick
    \/ \E f \in inflight, resp \in LiveResponses : FetchComplete(f, resp)

SpecLive ==
    /\ InitSync
    /\ [][NextLive]_vars
    /\ \A i \in 1..MaxCalls :
          WF_vars(\E f \in inflight, resp \in LiveResponses : f.id = i /\ FetchComplete(f, resp))

\* the syncAll call with start order i awaits Promise.all
SyncPending(i) == \E s \in syncs : s.id = i

\* C30: every started syncAll eventually completes; a loading flag is true
\* only while a fetch of its tab that is not silent is in flight; isSyncing
\* is false whenever no automatic sync is in flight.
C30_SyncTerminates ==
    /\ \A i \in 1..MaxCalls : SyncPending(i) ~> ~SyncPending(i)
    /\ [](\A t \in DOMAIN loadingMap :
             loadingMap[t] = TRUE => \E f \in inflight : f.tab = t /\ ~f.silent)
    /\ []((~\E s \in syncs : s.isAuto) => isSyncing = FALSE)

\* a sync has completed although one of its fetches failed: nothing is in
\* flight, no flag is left set, the tab of the failed fetch shows its message
C30_Witness ==
    /\ nextId > 1
    /\ syncs = {}
    /\ inflight = {}
    /\ isSyncing = FALSE
    /\ \A t \in TabIds : loadingMap[t] = FALSE
    /\ \E t \in TabIds : errorMap[t] \notin {NullError, NoError}

====
